---- MODULE Spec2Model ----
(***************************************************************************)
(* Process supervision, namespace executor and system mutex of             *)
(* gprofiler/utils.py.                                                     *)
(*                                                                         *)
(* SpecRun   : one run_process call with its child process, the caller's   *)
(*             stop event and a discrete monotonic clock.                  *)
(* SpecNs    : run_in_ns calls of one process: the worker thread, its      *)
(*             namespace joins and the callback.                           *)
(* SpecMutex : processes calling grab_gprofiler_mutex, each through        *)
(*             run_in_ns, and terminating.                                 *)
(* SpecGrabSeq : one process calling grab_gprofiler_mutex repeatedly.      *)
(* SpecLinks : resolve_proc_root_links over layouts of symbolic links.     *)
(* SpecWait  : one wait_event call on a predicate of the environment.      *)
(* SpecPoll  : one poll_process call and the process it watches.           *)
(* SpecFiles : one wait_for_file_by_prefix call and other actors creating  *)
(*             and removing files.                                         *)
(* SpecLive  : one run_process call given a stop event, or one wait_event  *)
(*             call, with a clock that never stops and threads that keep   *)
(*             running (weak fairness of their steps).                     *)
(***************************************************************************)
EXTENDS Integers, Sequences, FiniteSets, TLC

(* ----------------------------- bounds ---------------------------------- *)
\* the monotonic clock is observed up to MaxTime poll slices
MaxTime == 3
\* timeouts passed to run_process range over 0..MaxTimeout (or none)
MaxTimeout == 1
\* processes competing for the mutex
NProcs == 2
\* calls (run_in_ns, grab_gprofiler_mutex) one process makes
MaxCalls == 1
\* calls of grab_gprofiler_mutex one process makes one after the other
MaxGrabs == 3
\* length of the nstypes list passed to run_in_ns
MaxKinds == 3
\* symbolic links the kernel follows in one path lookup before ELOOP
MaxSymlinks == 3
\* matching files there can be in the directory of wait_for_file_by_prefix
NFiles == 3
\* changes other actors make to the directory during one call
MaxChanges == 1

(* --------------------------- constants --------------------------------- *)
\* Python's None: for a string or bytes value, and (Nil) for an optional number,
\* which is <<>> or <<n>>
None == "None"
Nil == <<>>
Some(n) == <<n>>
SIGKILL == 9
\* kill_signal values a caller passes: the default SIGKILL, or a signal the
\* child can catch or ignore (15, SIGTERM)
KillSignals == {SIGKILL, 15}
\* exit statuses of a child that ends by itself: exit codes, or -N when an
\* outside signal N ended it
SelfExitCodes == {0, 1, 0 - SIGKILL}
Outputs == {"", "x"}
Cmds == {<<"ls">>, <<"sh", "-c">>}
\* communicate(timeout=1): the length of one poll slice
PollSlice == 1

VARIABLES
    \* ---- arguments of the run_process call
    cmd, stop_event, check, timeout, kill_signal, communicate,
    \* ---- the caller's Event (meaningful when stop_event is TRUE)
    stopSet,
    \* ---- time.monotonic()
    now,
    \* ---- the child: "running", "zombie" (exited, not waited on), "reaped"
    child,
    \* how the child ended: "none", "self", "kill_signal"
    diedOf,
    \* wait status of the child once it has ended (None while running)
    exitStatus,
    \* whether the child survives a catchable signal
    childIgnores,
    \* bytes the child wrote to its stdout / stderr pipe
    outBytes, errBytes,
    \* ---- locals of run_process
    pc, stdout, stderr, end_time, sliceEnd, returncode, retcode, exc,
    \* what the caller receives
    outcome,
    \* calls made on the child and the way control left, in order
    trace,
    \* ---- history of the call: the Event was set while the call was waiting on
    \* a running child; the child was seen running past end_time
    stopWhileRunning, overdue

runArgs == <<cmd, stop_event, check, timeout, kill_signal, communicate>>
runEnv == <<stopSet, now, child, diedOf, exitStatus, childIgnores, outBytes, errBytes>>
runLocals == <<pc, stdout, stderr, end_time, sliceEnd, returncode, retcode, exc, outcome, trace>>
runHist == <<stopWhileRunning, overdue>>
runVars == <<runArgs, runEnv, runLocals, runHist>>

VARIABLES
    \* ---- per process: whether it lives, and the namespaces of its main
    \* thread (what /proc/self/ns/<kind> names)
    alive, procNs,
    \* ---- the current run_in_ns call of each process
    \* arguments: the nstypes list as passed, the callback; calls made so far
    requested, cb, calls,
    \* the caller: "idle", "l370" (called), "l396" (in t.join()), "l398"
    \* (returned), "dead"
    cpc,
    \* nstypes after line 370, ret (nonlocal), the value run_in_ns returned
    nstypes, ret, res,
    \* ---- the worker thread of the call: position, loop index, its own
    \* namespaces, the exception that ended it, the libc calls and the
    \* callback invocation it made, in order
    wpc, wi, workerNs, wexc, events,
    \* ---- the abstract socket name "\x00gprofiler_lock" of each network
    \* namespace: the process whose socket is bound to it, or 0
    bound,
    \* ---- the module global gprofiler_mutex of each process
    gprofiler_mutex,
    \* ---- what each finished grab_gprofiler_mutex call returned and printed
    results

nsProc == <<alive, procNs>>
nsCall == <<requested, cb, calls, cpc, nstypes, ret, res>>
nsWorker == <<wpc, wi, workerNs, wexc, events>>
mutexVars == <<bound, gprofiler_mutex, results>>
nsVars == <<nsProc, nsCall, nsWorker, mutexVars>>

VARIABLES
    \* ---- one resolve_proc_root_links call: its position (pc), the symbolic
    \* links under proc_root (link), the argument ns_path as Path.parts, the
    \* locals path and parts still to do (rest)
    ln,
    \* ---- one wait_event call: its position (pc), the argument timeout, the
    \* local end_time, the end of the current stop_event.wait(0.1) (sliceEnd),
    \* what the latest condition() returned (lastCond), how often it was
    \* called (evals), the exception raised (exc)
    we,
    \* ---- what the call sees of the world: the stop event (stopSet),
    \* time.monotonic() in units of 0.1 s (now), the truth of an abstract
    \* predicate (cond)
    weEnv,
    \* ---- one poll_process call: its position (pc), the process it watches
    \* ("running", "zombie": ended and not waited on, "reaped"), whether it
    \* called process.kill() (killed), the state of the process when wait_event
    \* failed (atFailure), the exception it raised (exc)
    pp,
    \* ---- one wait_for_file_by_prefix call: its position (pc), the local
    \* output_files, the index of the deletion loop (i), the returned file
    \* (result), the exception raised (exc), and as history: the files at the
    \* call (initial), the files listed at line 139 (listed), the files it
    \* unlinked (unlinked), the files others created after the listing of
    \* line 139 (late), whether others created or removed files during the
    \* call (created, removed) and how many times (changes)
    fw,
    \* ---- the files of the directory
    fs

waitVars == <<we, weEnv>>
fileVars == <<fw, fs>>
extVars == <<ln, waitVars, pp, fileVars>>
\* what the steps of one function leave alone
linkFrame == <<runVars, nsVars, waitVars, pp, fileVars>>
waitFrame == <<runVars, nsVars, ln, pp, fileVars>>
pollFrame == <<runVars, nsVars, ln, fileVars>>
fileFrame == <<runVars, nsVars, ln, pp>>

vars == <<runVars, nsVars, extVars>>

Timeouts == {Nil} \cup {Some(t) : t \in 0 .. MaxTimeout}

InCall == pc # "done"

\* the call is between entering the try block and leaving its wait
Waiting == pc \in {"l177", "l182", "l185", "l191", "l194", "l196"}

\* the call has not handed anything to its caller yet
NoOutcome == [type |-> "pending", returncode |-> Nil, cmd |-> <<>>,
              output |-> None, stderr |-> None]

(* ------------------------------ Init ----------------------------------- *)
\* start_process has returned a Popen whose child is running; the call is
\* about to enter the try block.
RunInit ==
    /\ cmd \in Cmds
    /\ stop_event \in BOOLEAN
    /\ check \in BOOLEAN
    /\ timeout \in Timeouts
    /\ kill_signal \in KillSignals
    /\ communicate \in BOOLEAN
    /\ childIgnores \in BOOLEAN
    /\ stopSet \in (IF stop_event THEN BOOLEAN ELSE {FALSE})
    /\ now = 0
    /\ child = "running"
    /\ diedOf = "none"
    /\ exitStatus = Nil
    /\ outBytes = ""
    /\ errBytes = ""
    /\ pc = "l177"
    /\ stdout = None
    /\ stderr = None
    /\ end_time = Nil
    /\ sliceEnd = 0
    /\ returncode = Nil
    /\ retcode = Nil
    /\ exc = None
    /\ outcome = NoOutcome
    /\ trace = <<>>
    /\ stopWhileRunning = FALSE
    /\ overdue = FALSE

\* the child is running past end_time
Overdue(t, c, e) == e # Nil /\ c = "running" /\ t > e[1]

(* --------------------------- environment ------------------------------- *)
Tick ==
    /\ InCall
    /\ now < MaxTime
    /\ now' = now + 1
    /\ overdue' = (overdue \/ Overdue(now + 1, child, end_time))
    /\ UNCHANGED <<runArgs, stopSet, child, diedOf, exitStatus, childIgnores,
                   outBytes, errBytes, runLocals, stopWhileRunning>>

\* time passes, without end: run_process only compares clock readings, so
\* once the clock reads MaxTime the origin moves instead: the stored readings
\* that are still ahead (end_time not yet passed, the end of the slice not
\* yet reached) come one unit closer
TickLive ==
    /\ pc \notin {"idle", "done"}
    /\ IF now < MaxTime
       THEN /\ now' = now + 1
            /\ end_time' = end_time
            /\ sliceEnd' = sliceEnd
       ELSE /\ now' = now
            /\ end_time' = IF end_time # Nil /\ end_time[1] >= now
                           THEN Some(end_time[1] - 1) ELSE end_time
            /\ sliceEnd' = IF sliceEnd > now THEN sliceEnd - 1 ELSE sliceEnd
    /\ overdue' = (overdue \/ Overdue(now', child, end_time'))
    /\ UNCHANGED <<runArgs, stopSet, child, diedOf, exitStatus, childIgnores,
                   outBytes, errBytes, pc, stdout, stderr, returncode, retcode, exc,
                   outcome, trace, stopWhileRunning>>

\* the orchestrating caller sets the Event; it is never cleared
SetStop ==
    /\ InCall
    /\ stop_event
    /\ ~stopSet
    /\ stopSet' = TRUE
    /\ stopWhileRunning' = (child = "running" /\ Waiting)
    /\ UNCHANGED <<runArgs, now, child, diedOf, exitStatus, childIgnores,
                   outBytes, errBytes, runLocals, overdue>>

\* the child ends by itself, having written o and e to its pipes
ChildExit ==
    /\ child = "running"
    /\ \E rc \in SelfExitCodes, o \in Outputs, e \in Outputs :
          /\ exitStatus' = Some(rc)
          /\ outBytes' = o
          /\ errBytes' = e
    /\ child' = "zombie"
    /\ diedOf' = "self"
    /\ UNCHANGED <<runArgs, stopSet, now, childIgnores, runLocals, runHist>>

(* ---------------------------- run_process ------------------------------ *)
\* line 188: end_time = (time.monotonic() + timeout) if timeout is not None else None
EndTime(t, tmo) == IF tmo # Nil THEN Some(t + tmo[1]) ELSE Nil

\* mutant: the stop event is never looked at
StopObserved_Never(isSet) == FALSE

\* line 194: if stop_event.is_set()
StopObserved(isSet) == isSet

\* mutant: the deadline counts as passed at end_time itself
DeadlinePassed_AtDeadline(t, e) == e # Nil /\ t >= e[1]

\* mutant: the deadline is never seen as passed
DeadlinePassed_Never(t, e) == FALSE

\* line 196: end_time is not None and time.monotonic() > end_time
DeadlinePassed(t, e) == e # Nil /\ t > e[1]

\* mutant: only positive exit codes fail the call
ShouldRaise_PositiveOnly(chk, rc) == chk /\ rc[1] > 0

\* line 213: check and retcode != 0
ShouldRaise(chk, rc) == chk /\ rc # Some(0)

\* lines 205, 214: what is handed to the caller after the wait has completed
Result(chk, rc, args, so, se) ==
    IF ShouldRaise(chk, rc)
    THEN [type |-> "CalledProcessError", returncode |-> rc, cmd |-> args,
          output |-> so, stderr |-> se]
    ELSE [type |-> "CompletedProcess", returncode |-> rc, cmd |-> args,
          output |-> so, stderr |-> se]

\* an exception raised inside the try block, as the caller receives it
Raised(e) == [type |-> e, returncode |-> Nil, cmd |-> <<>>,
              output |-> None, stderr |-> None]

\* mutant: no assertion on timeout; the call waits as if none was given
L177_Enter_NoTimeoutAssert ==
    /\ pc = "l177"
    /\ IF ~stop_event
       THEN /\ exc' = exc
            /\ pc' = IF communicate THEN "l182" ELSE "l185"
       ELSE IF ~communicate
            THEN /\ exc' = "AssertionError"
                 /\ pc' = "l200"
            ELSE /\ exc' = exc
                 /\ pc' = "l191"
    /\ end_time' = IF stop_event /\ communicate THEN EndTime(now, timeout) ELSE end_time
    /\ sliceEnd' = IF stop_event /\ communicate THEN now + PollSlice ELSE sliceEnd
    /\ overdue' = (overdue \/ Overdue(now, child, end_time'))
    /\ UNCHANGED <<runArgs, runEnv, stdout, stderr, returncode, retcode, outcome,
                   trace, stopWhileRunning>>

\* lines 177-188: which branch the call takes, the two assertions included
L177_Enter ==
    /\ pc = "l177"
    /\ IF ~stop_event
       THEN IF timeout # Nil
            THEN /\ exc' = "AssertionError"
                 /\ pc' = "l200"
            ELSE /\ exc' = exc
                 /\ pc' = IF communicate THEN "l182" ELSE "l185"
       ELSE IF ~communicate
            THEN /\ exc' = "AssertionError"
                 /\ pc' = "l200"
            ELSE /\ exc' = exc
                 /\ pc' = "l191"
    /\ end_time' = IF stop_event /\ communicate THEN EndTime(now, timeout) ELSE end_time
    /\ sliceEnd' = IF stop_event /\ communicate THEN now + PollSlice ELSE sliceEnd
    /\ overdue' = (overdue \/ Overdue(now, child, end_time'))
    /\ UNCHANGED <<runArgs, runEnv, stdout, stderr, returncode, retcode, outcome,
                   trace, stopWhileRunning>>

\* lines 182 and 191, the child has ended: communicate reads both pipes to
\* their end and waits on the child
CommunicateDone ==
    /\ pc \in {"l182", "l191"}
    /\ child = "zombie"
    /\ child' = "reaped"
    /\ returncode' = exitStatus
    /\ stdout' = outBytes
    /\ stderr' = errBytes
    /\ trace' = Append(trace, "reap")
    /\ pc' = "l203"
    /\ UNCHANGED <<runArgs, stopSet, now, diedOf, exitStatus, childIgnores, outBytes,
                   errBytes, end_time, sliceEnd, retcode, exc, outcome, runHist>>

\* line 185: process.wait() returns once the child has ended; nothing is read
L185_Wait ==
    /\ pc = "l185"
    /\ child = "zombie"
    /\ child' = "reaped"
    /\ returncode' = exitStatus
    /\ trace' = Append(trace, "reap")
    /\ pc' = "l203"
    /\ UNCHANGED <<runArgs, stopSet, now, diedOf, exitStatus, childIgnores, outBytes,
                   errBytes, stdout, stderr, end_time, sliceEnd, retcode, exc, outcome,
                   runHist>>

\* line 191/193: the slice ends with the child still running
L193_SliceTimeout ==
    /\ pc = "l191"
    /\ child = "running"
    /\ now >= sliceEnd
    /\ pc' = "l194"
    /\ UNCHANGED <<runArgs, runEnv, stdout, stderr, end_time, sliceEnd, returncode,
                   retcode, exc, outcome, trace, runHist>>

\* mutant: the deadline is examined before the stop event
L194_CheckStop_DeadlineFirst ==
    /\ pc = "l194"
    /\ IF DeadlinePassed(now, end_time)
       THEN /\ exc' = "TimeoutExpired"
            /\ pc' = "l200"
       ELSE IF StopObserved(stopSet)
            THEN /\ exc' = "ProcessStoppedException"
                 /\ pc' = "l200"
            ELSE /\ exc' = exc
                 /\ pc' = "l196"
    /\ UNCHANGED <<runArgs, runEnv, stdout, stderr, end_time, sliceEnd, returncode,
                   retcode, outcome, trace, runHist>>

\* lines 194-195
L194_CheckStop ==
    /\ pc = "l194"
    /\ IF StopObserved(stopSet)
       THEN /\ exc' = "ProcessStoppedException"
            /\ pc' = "l200"
       ELSE /\ exc' = exc
            /\ pc' = "l196"
    /\ UNCHANGED <<runArgs, runEnv, stdout, stderr, end_time, sliceEnd, returncode,
                   retcode, outcome, trace, runHist>>

\* lines 196-198, then back to line 191 for the next slice
L196_CheckDeadline ==
    /\ pc = "l196"
    /\ IF DeadlinePassed(now, end_time)
       THEN /\ exc' = "TimeoutExpired"
            /\ pc' = "l200"
            /\ sliceEnd' = sliceEnd
       ELSE /\ exc' = exc
            /\ pc' = "l191"
            /\ sliceEnd' = now + PollSlice
    /\ UNCHANGED <<runArgs, runEnv, stdout, stderr, end_time, returncode, retcode,
                   outcome, trace, runHist>>

\* lines 182, 185, 191: any other exception raised while waiting
WaitInterrupted ==
    /\ pc \in {"l182", "l185", "l191"}
    /\ exc' = "Exception"
    /\ pc' = "l200"
    /\ UNCHANGED <<runArgs, runEnv, stdout, stderr, end_time, sliceEnd, returncode,
                   retcode, outcome, trace, runHist>>

\* what a signal does to the child: SIGKILL always ends a running child, a
\* catchable signal ends it unless the child ignores it
Kills(sig, ignores) == sig = SIGKILL \/ ~ignores

\* line 200: process.send_signal(kill_signal)
L200_SendSignal ==
    /\ pc = "l200"
    /\ trace' = Append(trace, "send_signal")
    /\ IF child = "running" /\ Kills(kill_signal, childIgnores)
       THEN /\ child' = "zombie"
            /\ diedOf' = "kill_signal"
            /\ exitStatus' = Some(0 - kill_signal)
       ELSE UNCHANGED <<child, diedOf, exitStatus>>
    /\ pc' = "l201"
    /\ UNCHANGED <<runArgs, stopSet, now, childIgnores, outBytes, errBytes, stdout,
                   stderr, end_time, sliceEnd, returncode, retcode, exc, outcome,
                   runHist>>

\* mutant: the exception is re-raised without waiting on the child
L201_Wait_Skipped ==
    /\ pc = "l201"
    /\ pc' = "l202"
    /\ UNCHANGED <<runArgs, runEnv, stdout, stderr, end_time, sliceEnd, returncode,
                   retcode, exc, outcome, trace, runHist>>

\* line 201: process.wait() blocks until the child has ended, and reaps it
L201_Wait ==
    /\ pc = "l201"
    /\ child = "zombie"
    /\ child' = "reaped"
    /\ returncode' = exitStatus
    /\ trace' = Append(trace, "reap")
    /\ pc' = "l202"
    /\ UNCHANGED <<runArgs, stopSet, now, diedOf, exitStatus, childIgnores, outBytes,
                   errBytes, stdout, stderr, end_time, sliceEnd, retcode, exc, outcome,
                   runHist>>

\* line 202: raise; the exception leaves the with block and reaches the caller
L202_Reraise ==
    /\ pc = "l202"
    /\ outcome' = Raised(exc)
    /\ trace' = Append(trace, "raise")
    /\ pc' = "done"
    /\ UNCHANGED <<runArgs, runEnv, stdout, stderr, end_time, sliceEnd, returncode,
                   retcode, exc, runHist>>

\* lines 203-204: retcode = process.poll(); assert retcode is not None
L203_Poll ==
    /\ pc = "l203"
    /\ retcode' = returncode
    /\ IF returncode = Nil
       THEN /\ outcome' = Raised("AssertionError")
            /\ trace' = Append(trace, "raise")
            /\ pc' = "done"
       ELSE /\ outcome' = outcome
            /\ trace' = trace
            /\ pc' = "l205"
    /\ UNCHANGED <<runArgs, runEnv, stdout, stderr, end_time, sliceEnd, returncode,
                   exc, runHist>>

\* lines 205-215: build the CompletedProcess, raise CalledProcessError or return
L205_Finish ==
    /\ pc = "l205"
    /\ outcome' = Result(check, retcode, cmd, stdout, stderr)
    /\ trace' = Append(trace, IF ShouldRaise(check, retcode) THEN "raise" ELSE "return")
    /\ pc' = "done"
    /\ UNCHANGED <<runArgs, runEnv, stdout, stderr, end_time, sliceEnd, returncode,
                   retcode, exc, runHist>>

(* ======================= claims about run_process ====================== *)
\* the conditions raised from inside the try block
FailureTypes == {"ProcessStoppedException", "TimeoutExpired", "AssertionError", "Exception"}
\* the outcomes of a wait that completed
CompletionTypes == {"CompletedProcess", "CalledProcessError"}
\* kill_signal sent, then the child waited on, then the exception propagates
FailTrace == <<"send_signal", "reap", "raise">>

\* C1: on every path by which run_process leaves, the child has exited and been
\* waited on when control returns; on every failure path kill_signal is sent
\* and the child waited on, in that order, before the exception propagates.
C1_ReapedOnEveryExit ==
    /\ pc \in {"l202", "done"} => child = "reaped" /\ returncode = exitStatus
    /\ pc = "done" => returncode # Nil
    /\ (pc = "done" /\ outcome.type \in FailureTypes) => trace = FailTrace
    /\ (pc = "done" /\ outcome.type \in CompletionTypes) =>
            trace \in {<<"reap", "raise">>, <<"reap", "return">>}
    /\ pc = "done" => outcome.type \in FailureTypes \cup CompletionTypes

\* C1 witness: an unexpected exception while waiting, the child killed and reaped
C1_Witness ==
    /\ pc = "done"
    /\ outcome.type = "Exception"
    /\ diedOf = "kill_signal"
    /\ child = "reaped"

\* C2 as stated: a stop event set while the child runs, the child not exiting by
\* itself, always ends the call with ProcessStoppedException (an assertion
\* failure or an unexpected exception while waiting set aside).
C2_Original ==
    (/\ pc = "done"
     /\ stop_event
     /\ stopWhileRunning
     /\ diedOf # "self"
     /\ outcome.type \notin {"AssertionError", "Exception"})
    => outcome.type = "ProcessStoppedException"

\* C2 amended: with a stop_event and communicate=True, a stop event found set
\* by the check of line 194 ends the call with ProcessStoppedException, in the
\* order kill_signal sent, child reaped, exception at the caller, and the child
\* is not alive afterwards; a stop event set while the child runs ends the
\* call with ProcessStoppedException or, when a timeout was given and the
\* event was set only after the check of line 194, with TimeoutExpired, after
\* the same cleanup.
C2_StopObservedThenStopped ==
    /\ [][(pc = "l194" /\ pc' # "l194" /\ stopSet)
            => (exc' = "ProcessStoppedException" /\ pc' = "l200")]_vars
    /\ []((pc = "done" /\ exc = "ProcessStoppedException")
            => /\ outcome.type = "ProcessStoppedException"
               /\ trace = FailTrace
               /\ child = "reaped"
               /\ stopSet)
    /\ []((/\ pc = "done"
           /\ stop_event
           /\ communicate
           /\ stopWhileRunning
           /\ diedOf # "self"
           /\ outcome.type # "Exception")
            => /\ outcome.type \in {"ProcessStoppedException", "TimeoutExpired"}
               /\ outcome.type = "TimeoutExpired" => timeout # Nil
               /\ trace = FailTrace
               /\ child = "reaped")

\* C2 witness: the event was set mid-wait, the child killed, reaped, and the
\* ProcessStoppedException handed to the caller
C2_Witness ==
    /\ pc = "done"
    /\ stopWhileRunning
    /\ outcome.type = "ProcessStoppedException"
    /\ diedOf = "kill_signal"
    /\ trace = FailTrace

\* C3 as stated: given a timeout, a child still running after the timeout has
\* elapsed, with the stop event never set, always ends the call with
\* TimeoutExpired (an unexpected exception while waiting set aside).
C3_Original ==
    (/\ pc = "done"
     /\ timeout # Nil
     /\ overdue
     /\ ~stopSet
     /\ outcome.type # "Exception")
    => outcome.type = "TimeoutExpired"

\* C3 amended: with a stop_event, communicate=True and a timeout, when a poll
\* slice ends with the child still running, the stop event not set and the
\* clock past end_time at line 196, the call raises TimeoutExpired, kill_signal
\* sent and the child reaped before it reaches the caller; TimeoutExpired is
\* raised only after the deadline; a child that has not exited by itself and
\* is overdue, the stop event never set, ends the call with TimeoutExpired.
C3_TimeoutThenKilled ==
    /\ [][(pc = "l196" /\ pc' # "l196" /\ end_time # Nil /\ now > end_time[1])
            => (exc' = "TimeoutExpired" /\ pc' = "l200")]_vars
    /\ [](exc = "TimeoutExpired"
            => /\ stop_event /\ communicate /\ timeout # Nil
               /\ end_time # Nil
               /\ now > end_time[1])
    /\ []((pc = "done" /\ exc = "TimeoutExpired")
            => /\ outcome.type = "TimeoutExpired"
               /\ trace = FailTrace
               /\ child = "reaped")
    /\ []((/\ pc = "done"
           /\ stop_event
           /\ communicate
           /\ timeout # Nil
           /\ overdue
           /\ ~stopSet
           /\ diedOf # "self"
           /\ outcome.type # "Exception")
            => outcome.type = "TimeoutExpired")

\* C3 witness: the deadline passed with the event unset; the child was killed
C3_Witness ==
    /\ pc = "done"
    /\ ~stopSet
    /\ overdue
    /\ outcome.type = "TimeoutExpired"
    /\ diedOf = "kill_signal"
    /\ child = "reaped"

\* C4 as stated: without a stop_event a timeout still applies: the call ends
\* with the child's outcome or with a timeout condition.
C4_Original ==
    (pc = "done" /\ ~stop_event /\ timeout # Nil /\ outcome.type # "Exception")
    => outcome.type \in CompletionTypes \cup {"TimeoutExpired"}

\* C4 amended: without a stop_event a timeout is rejected: the assertion of
\* line 179 fails before any wait, the child is sent kill_signal and reaped and
\* AssertionError reaches the caller, no output captured; only with no timeout
\* does the call block until the child exits and return its outcome.
C4_TimeoutRejectedWithoutStopEvent ==
    /\ (pc = "done" /\ ~stop_event /\ timeout # Nil)
         => /\ outcome.type = "AssertionError"
            /\ trace = FailTrace
            /\ child = "reaped"
            /\ stdout = None /\ stderr = None
    /\ (pc = "done" /\ ~stop_event /\ timeout = Nil /\ outcome.type # "Exception")
         => /\ outcome.type \in CompletionTypes
            /\ diedOf = "self"
    /\ ~stop_event => pc # "l191" /\ end_time = Nil

\* C4 witness: a call with a timeout and no stop_event ended in AssertionError
C4_Witness ==
    /\ pc = "done"
    /\ ~stop_event
    /\ timeout # Nil
    /\ outcome.type = "AssertionError"
    /\ diedOf = "kill_signal"

\* C5: when the wait completes because the child ended by itself, the call
\* raises CalledProcessError iff check is true and the return code is not 0
\* (negative codes included); error and CompletedProcess carry the child's
\* return code, the argument vector and what communicate captured of stdout and
\* stderr (None when communicate is false).
C5_OutcomeOfCompletedChild ==
    /\ (pc = "done" /\ exc = None)
         => /\ outcome.type \in CompletionTypes
            /\ diedOf = "self"
    /\ (pc = "done" /\ outcome.type \in CompletionTypes)
         => /\ exc = None
            /\ outcome.type = "CalledProcessError" <=> (check /\ exitStatus # Some(0))
            /\ outcome.returncode = exitStatus
            /\ outcome.cmd = cmd
            /\ outcome.output = (IF communicate THEN outBytes ELSE None)
            /\ outcome.stderr = (IF communicate THEN errBytes ELSE None)

\* C5 witness: a child ended by a signal, with output, fails a checked call
C5_Witness ==
    /\ pc = "done"
    /\ outcome.type = "CalledProcessError"
    /\ outcome.returncode = Some(0 - SIGKILL)
    /\ outcome.output = "x"
    /\ outcome.stderr = "x"
    /\ diedOf = "self"

RunIdle ==
    /\ cmd = <<"ls">>
    /\ stop_event = FALSE
    /\ check = TRUE
    /\ timeout = Nil
    /\ kill_signal = SIGKILL
    /\ communicate = TRUE
    /\ childIgnores = FALSE
    /\ stopSet = FALSE
    /\ now = 0
    /\ child = "none"
    /\ diedOf = "none"
    /\ exitStatus = Nil
    /\ outBytes = ""
    /\ errBytes = ""
    /\ pc = "idle"
    /\ stdout = None
    /\ stderr = None
    /\ end_time = Nil
    /\ sliceEnd = 0
    /\ returncode = Nil
    /\ retcode = Nil
    /\ exc = None
    /\ outcome = NoOutcome
    /\ trace = <<>>
    /\ stopWhileRunning = FALSE
    /\ overdue = FALSE

(* ====================== resolve_proc_root_links ======================== *)
\* names of the entries of a root directory; every directory holds "file"
Names == {"a", "b", "etc"}
\* line 280: proc_root, a directory of the real root, as path components
proc_root == <<"B">>
\* what an entry of proc_root is: a directory, or a symbolic link with an
\* absolute target /m, a relative target m, or a relative target ../m
NoLink == <<>>
LinkTargets == {<<"/", m>> : m \in Names} \cup {<<m>> : m \in Names}
                   \cup {<<"..", m>> : m \in Names}
Layouts == [Names -> {NoLink} \cup LinkTargets]
\* line 280: ns_path as Path(ns_path).parts, absolute
NsPaths == {<<"/", n, "file">> : n \in Names} \cup {<<"/", n>> : n \in Names}

\* ---- the files as the kernel sees them; a location is the list of
\* components from the real root. The real root holds proc_root and
\* directories of its own named as those of proc_root.
IsLink(lk, loc) == Len(loc) = 2 /\ loc[1] = "B" /\ loc[2] \in Names /\ lk[loc[2]] # NoLink
IsDir(lk, loc) ==
    \/ loc = <<>>
    \/ loc = proc_root
    \/ Len(loc) = 1 /\ loc[1] \in Names
    \/ Len(loc) = 2 /\ loc[1] = "B" /\ loc[2] \in Names /\ lk[loc[2]] = NoLink
IsFile(lk, loc) ==
    \/ Len(loc) = 2 /\ loc[1] \in Names /\ loc[2] = "file"
    \/ Len(loc) = 3 /\ loc[1] = "B" /\ loc[2] \in Names /\ lk[loc[2]] = NoLink
                    /\ loc[3] = "file"
ENOENT == <<"!ENOENT">>
ELOOP == <<"!ELOOP">>
IsError(loc) == loc \in {ENOENT, ELOOP}
Parent(loc) == SubSeq(loc, 1, Len(loc) - 1)

\* path lookup by the kernel for a process whose root directory is root:
\* walk parts from cur, following symbolic links (at most fuel of them), an
\* absolute target restarting at root and ".." stopping at root; with
\* nofollow a link in the last component is not followed (lstat, readlink)
RECURSIVE Walk(_, _, _, _, _, _)
Walk(lk, root, cur, parts, fuel, nofollow) ==
    IF parts = <<>> THEN cur
    ELSE IF ~IsDir(lk, cur) THEN ENOENT
    ELSE IF Head(parts) = ".."
         THEN Walk(lk, root, IF cur = root THEN cur ELSE Parent(cur), Tail(parts),
                   fuel, nofollow)
    ELSE LET loc == Append(cur, Head(parts))
         IN  IF IsLink(lk, loc)
             THEN IF Tail(parts) = <<>> /\ nofollow THEN loc
                  ELSE IF fuel = 0 THEN ELOOP
                  ELSE LET t == lk[Head(parts)]
                       IN  IF t[1] = "/"
                           THEN Walk(lk, root, root, Tail(t) \o Tail(parts),
                                     fuel - 1, nofollow)
                           ELSE Walk(lk, root, cur, t \o Tail(parts), fuel - 1, nofollow)
             ELSE IF IsDir(lk, loc) \/ IsFile(lk, loc)
                  THEN Walk(lk, root, loc, Tail(parts), fuel, nofollow)
                  ELSE ENOENT

\* what a path string of this process (real root) denotes
Denotes(lk, path) == Walk(lk, <<>>, <<>>, path, MaxSymlinks, FALSE)
\* what ns_path denotes for a process whose root is proc_root
DenotesInRoot(lk, parts) == Walk(lk, proc_root, proc_root, Tail(parts), MaxSymlinks, FALSE)
\* line 297: os.path.islink(next_path), false on any error
islink(lk, path) == IsLink(lk, Walk(lk, <<>>, <<>>, path, MaxSymlinks, TRUE))
\* line 298: os.readlink(next_path)
readlink(lk, path) == lk[Walk(lk, <<>>, <<>>, path, MaxSymlinks, TRUE)[2]]

\* lines 296-305: one component: next_path = os.path.join(path, part); a
\* link with an absolute target gives proc_root + link, one with a relative
\* target os.path.join(path, link)
NextPath(lk, path, part) ==
    LET next_path == Append(path, part)
    IN  IF islink(lk, next_path)
        THEN LET link == readlink(lk, next_path)
             IN  IF link[1] = "/" THEN proc_root \o Tail(link) ELSE path \o link
        ELSE next_path

\* no resolve_proc_root_links call is made
LinkIdle ==
    ln = [pc |-> "idle", link |-> [n \in Names |-> NoLink], ns_path |-> <<"/">>,
          path |-> <<>>, rest |-> <<>>]

\* a call resolve_proc_root_links(proc_root, ns_path) over some layout
LinkInit ==
    ln \in [pc : {"l292"}, link : Layouts, ns_path : NsPaths, path : {<<>>},
            rest : {<<>>}]

\* lines 292-295: parts, the assertion, path = proc_root
L292_Begin ==
    /\ ln.pc = "l292"
    /\ ln.ns_path[1] = "/"
    /\ ln' = [ln EXCEPT !.pc = "l296", !.path = proc_root, !.rest = Tail(ln.ns_path)]

\* lines 295-305: one turn of the loop
L296_Component ==
    /\ ln.pc = "l296"
    /\ ln.rest # <<>>
    /\ ln' = [ln EXCEPT !.path = NextPath(ln.link, ln.path, Head(ln.rest)),
                        !.rest = Tail(ln.rest)]

\* line 306: return path
L306_Return ==
    /\ ln.pc = "l296"
    /\ ln.rest = <<>>
    /\ ln' = [ln EXCEPT !.pc = "returned"]

(* ================ claims about resolve_proc_root_links ================= *)
\* the location is proc_root or below it
InRoot(loc) == loc # <<>> /\ loc[1] = "B"

\* C13, the case of the example: when the entry named by the first component
\* is a link whose target names a directory of proc_root (not again a link,
\* not above the root), or no link at all, the returned path denotes what
\* ns_path denotes for a process rooted at proc_root, and it is inside
\* proc_root.
C13_SingleLinkStaysInRoot ==
    (ln.pc = "returned"
       /\ LET t == ln.link[ln.ns_path[2]]
          IN  t = NoLink \/ (t[1] # ".." /\ ln.link[t[Len(t)]] = NoLink))
        => /\ Denotes(ln.link, ln.path) = DenotesInRoot(ln.link, ln.ns_path)
           /\ InRoot(Denotes(ln.link, ln.path))

\* C13 as stated: for every layout of links and every absolute path, the
\* returned path, opened from the real root, denotes the file that ns_path
\* denotes for a process rooted at proc_root, and the lookup does not leave
\* proc_root.
C13_Original ==
    (ln.pc = "returned" /\ ~IsError(DenotesInRoot(ln.link, ln.ns_path)))
        => /\ Denotes(ln.link, ln.path) = DenotesInRoot(ln.link, ln.ns_path)
           /\ InRoot(Denotes(ln.link, ln.path))

(* ============================= wait_event ============================== *)
\* line 120: stop_event.wait(0.1), one unit of the clock
WaitSlice == 1

\* no wait_event call is made
\* the locals of wait_event when no call is active
NoWait ==
    [pc |-> "idle", timeout |-> 0, end_time |-> Nil, sliceEnd |-> 0,
     lastCond |-> Nil, evals |-> 0, exc |-> "none"]

WaitIdle ==
    /\ we = NoWait
    /\ weEnv = [stopSet |-> FALSE, now |-> 0, cond |-> FALSE]

\* a call wait_event(timeout, stop_event, condition) has been made
WaitCalled ==
    we \in [pc : {"l115"}, timeout : 0 .. MaxTimeout, end_time : {Nil}, sliceEnd : {0},
            lastCond : {Nil}, evals : {0}, exc : {"none"}]

\* the call has neither returned nor raised
WaitRunning == we.pc \in {"l115", "l117", "l120", "l123"}

\* time passes
WTick ==
    /\ WaitRunning
    /\ weEnv.now < MaxTime
    /\ weEnv' = [weEnv EXCEPT !.now = @ + 1]
    /\ we' = we

\* time passes, without end: wait_event only compares clock readings, so once
\* the clock reads MaxTime the origin moves instead, as in TickLive
WTickLive ==
    /\ WaitRunning
    /\ IF weEnv.now < MaxTime
       THEN /\ weEnv' = [weEnv EXCEPT !.now = @ + 1]
            /\ we' = we
       ELSE /\ weEnv' = weEnv
            /\ we' = [we EXCEPT
                      !.end_time = IF @ # Nil /\ @[1] >= weEnv.now THEN Some(@[1] - 1) ELSE @,
                      !.sliceEnd = IF @ > weEnv.now THEN @ - 1 ELSE @]

\* some thread sets the stop event
WSetStop ==
    /\ WaitRunning
    /\ ~weEnv.stopSet
    /\ weEnv' = [weEnv EXCEPT !.stopSet = TRUE]
    /\ we' = we

\* the truth of the predicate changes
CondFlip ==
    /\ WaitRunning
    /\ weEnv' = [weEnv EXCEPT !.cond = ~@]
    /\ we' = we

\* line 115: end_time = time.monotonic() + timeout
L115_Start ==
    /\ we.pc = "l115"
    /\ we' = [we EXCEPT !.end_time = Some(weEnv.now + we.timeout), !.pc = "l117"]
    /\ weEnv' = weEnv

\* mutant: the stop event is looked at before the predicate
L117_Condition_StopFirst(c) ==
    /\ we.pc = "l117"
    /\ IF weEnv.stopSet
       THEN we' = [we EXCEPT !.exc = "StopEventSetException", !.pc = "raised"]
       ELSE we' = [we EXCEPT !.lastCond = Some(c), !.evals = @ + 1,
                             !.pc = IF c THEN "returned" ELSE "l120",
                             !.sliceEnd = weEnv.now + WaitSlice]
    /\ weEnv' = weEnv

\* lines 117-118: if condition(): break, where the call returned c
L117_Condition(c) ==
    /\ we.pc = "l117"
    /\ we' = [we EXCEPT !.lastCond = Some(c), !.evals = @ + 1,
                        !.pc = IF c THEN "returned" ELSE "l120",
                        !.sliceEnd = IF c THEN @ ELSE weEnv.now + WaitSlice]
    /\ weEnv' = weEnv

\* lines 120-121: stop_event.wait(0.1) returns True as soon as the event is
\* set, False when the slice has passed
L120_StopWait ==
    /\ we.pc = "l120"
    /\ weEnv.stopSet \/ weEnv.now >= we.sliceEnd
    /\ IF weEnv.stopSet
       THEN we' = [we EXCEPT !.exc = "StopEventSetException", !.pc = "raised"]
       ELSE we' = [we EXCEPT !.pc = "l123"]
    /\ weEnv' = weEnv

\* lines 123-124: if time.monotonic() > end_time: raise TimeoutError()
L123_Deadline ==
    /\ we.pc = "l123"
    /\ IF weEnv.now > we.end_time[1]
       THEN we' = [we EXCEPT !.exc = "TimeoutError", !.pc = "raised"]
       ELSE we' = [we EXCEPT !.pc = "l117"]
    /\ weEnv' = weEnv

\* lines 117: the predicate of the caller, here a fact of the environment
L117_Predicate == L117_Condition(weEnv.cond)

(* ======================== claims about wait_event ====================== *)
\* C16: wait_event returns only after a call of the predicate that gave
\* true, raises StopEventSetException only with the stop event set and
\* TimeoutError only with the clock past end_time; the first thing it does,
\* and the first in every iteration, is to call the predicate, and a true
\* predicate makes it return whatever the stop event and the clock say; the
\* stop event is looked at only after a false predicate, the deadline only
\* after the stop wait; no step of the function changes the stop event, the
\* clock or the predicate.
C16_PredicateFirst ==
    /\ [](we.pc = "returned" => (we.lastCond = Some(TRUE) /\ we.exc = "none"))
    /\ [](we.exc = "StopEventSetException" => weEnv.stopSet)
    /\ [](we.exc = "TimeoutError" => weEnv.now > we.end_time[1])
    /\ [](we.pc = "raised" => (we.exc # "none" /\ we.lastCond = Some(FALSE)))
    /\ [][(we.pc = "l115" /\ we'.pc # "l115") => we'.pc = "l117"]_vars
    /\ [][(we.pc = "l117" /\ we'.pc # "l117")
             => /\ we'.evals = we.evals + 1
                /\ we'.lastCond = Some(weEnv.cond)
                /\ we'.pc = IF weEnv.cond THEN "returned" ELSE "l120"]_vars
    /\ [][(we.pc # "l120" /\ we'.pc = "l120") => we.pc = "l117"]_vars
    /\ [][(we.pc # "l123" /\ we'.pc = "l123") => (we.pc = "l120" /\ ~weEnv.stopSet)]_vars
    /\ [][(we.pc # "l117" /\ we'.pc = "l117") => we.pc \in {"l115", "l123"}]_vars
    /\ [][we' # we => weEnv' = weEnv]_vars

\* C16 witness: timeout zero, the stop event set, and the call returned on its
\* first call of the predicate
C16_Witness ==
    /\ we.pc = "returned"
    /\ we.timeout = 0
    /\ weEnv.stopSet
    /\ we.evals = 1
    /\ weEnv.now = 0

(* ============================ poll_process ============================= *)
\* no poll_process call is made
PollIdle ==
    pp = [pc |-> "idle", proc |-> "reaped", killed |-> FALSE, atFailure |-> "none",
          exc |-> "none"]

\* poll_process(process, timeout, stop_event) has been called and is about to
\* call wait_event (line 129); the process may have ended already
PollCalled ==
    pp \in [pc : {"l129"}, proc : {"running", "zombie"}, killed : {FALSE},
            atFailure : {"none"}, exc : {"none"}]

\* the process ends by itself
ProcExit ==
    /\ pp.pc \in {"l129", "l131", "l132"}
    /\ pp.proc = "running"
    /\ pp' = [pp EXCEPT !.proc = "zombie"]
    /\ UNCHANGED waitVars

\* line 129, the predicate: process.poll() is not None; poll() waits on a
\* process that has ended
PP_L129_Poll ==
    /\ L117_Condition(pp.proc # "running")
    /\ pp' = [pp EXCEPT !.proc = IF @ = "zombie" THEN "reaped" ELSE @]

\* line 129: wait_event returned, and so does poll_process
PP_L129_Done ==
    /\ pp.pc = "l129"
    /\ we.pc = "returned"
    /\ pp' = [pp EXCEPT !.pc = "returned"]
    /\ UNCHANGED waitVars

\* line 130: except StopEventSetException; any other exception of wait_event
\* leaves poll_process as it is
PP_L130_Except ==
    /\ pp.pc = "l129"
    /\ we.pc = "raised"
    /\ IF we.exc = "StopEventSetException"
       THEN pp' = [pp EXCEPT !.pc = "l131", !.atFailure = pp.proc]
       ELSE pp' = [pp EXCEPT !.pc = "raised", !.exc = we.exc, !.atFailure = pp.proc]
    /\ UNCHANGED waitVars

\* line 131: process.kill(): SIGKILL ends a running process, which is then
\* not waited on; for a process that has ended already, Popen.send_signal
\* either polls (and so waits on it) or does nothing, by Python version
PP_L131_Kill ==
    /\ pp.pc = "l131"
    /\ \E polls \in BOOLEAN :
         pp' = [pp EXCEPT !.pc = "l132", !.killed = TRUE,
                          !.proc = IF @ = "running" THEN "zombie"
                                   ELSE IF polls THEN "reaped" ELSE @]
    /\ UNCHANGED waitVars

\* line 132: raise
PP_L132_Raise ==
    /\ pp.pc = "l132"
    /\ pp' = [pp EXCEPT !.pc = "raised", !.exc = "StopEventSetException"]
    /\ UNCHANGED waitVars

(* ======================= claims about poll_process ===================== *)
\* C18, what the code gives: on StopEventSetException the process has been
\* sent SIGKILL and is not running when poll_process raises; on TimeoutError
\* nothing was done to the process.
C18_KilledOnStopOnly ==
    pp.pc = "raised" =>
        /\ pp.exc = "StopEventSetException" => (pp.killed /\ pp.proc # "running")
        /\ pp.exc = "TimeoutError" => ~pp.killed

\* C18 as stated: on both conditions the process has been forcibly ended and
\* waited on before the condition is raised: a process that was running
\* when wait_event failed is neither running nor a zombie when poll_process
\* raises.
C18_Original ==
    (pp.pc = "raised" /\ pp.atFailure = "running") => pp.proc = "reaped"

(* ====================== wait_for_file_by_prefix ======================== *)
\* The files of the directory: file 0 does not match prefix*, file n >= 1
\* is prefix followed by the time stamp n; stamps have one width, so the order
\* of the names as strings is the order of the numbers.
Files == 0 .. NFiles

\* glob.glob(f"{prefix}*") as a set
Glob(files) == {f \in files : f >= 1}

\* the orders in which glob.glob can list the files S
Listings(S) ==
    {l \in [1 .. Cardinality(S) -> S] : \A a, b \in 1 .. Cardinality(S) : a # b => l[a] # l[b]}

\* the greatest file of a non-empty set
Last(S) == CHOOSE f \in S : \A g \in S : g <= f

\* no wait_for_file_by_prefix call is made
FileIdle ==
    /\ fw = [pc |-> "idle", output_files |-> <<>>, i |-> 1, result |-> Nil,
             exc |-> "none", initial |-> {}, listed |-> {}, unlinked |-> {},
             late |-> {}, created |-> FALSE, removed |-> FALSE, changes |-> 0]
    /\ fs = {}

\* wait_for_file_by_prefix(prefix, timeout, stop_event) has been called and is
\* about to call wait_event (line 137), in a directory with any files
FileCalled ==
    /\ fs \in SUBSET Files
    /\ fw = [pc |-> "l137", output_files |-> <<>>, i |-> 1, result |-> Nil,
             exc |-> "none", initial |-> fs, listed |-> {}, unlinked |-> {},
             late |-> {}, created |-> FALSE, removed |-> FALSE, changes |-> 0]

\* the call has neither returned nor raised
FileRunning == fw.pc \notin {"idle", "returned", "raised"}

\* another actor (a profiler) creates file f
Create(f) ==
    /\ FileRunning
    /\ fw.changes < MaxChanges
    /\ f \notin fs
    /\ fs' = fs \cup {f}
    /\ fw' = [fw EXCEPT !.created = TRUE, !.changes = @ + 1,
                        !.late = IF fw.pc \in {"l137", "l139"} THEN @ ELSE @ \cup {f}]
    /\ UNCHANGED waitVars

\* another actor removes file f
Remove(f) ==
    /\ FileRunning
    /\ fw.changes < MaxChanges
    /\ f \in fs
    /\ fs' = fs \ {f}
    /\ fw' = [fw EXCEPT !.removed = TRUE, !.changes = @ + 1]
    /\ UNCHANGED waitVars

\* line 137, the predicate: len(glob.glob(glob_pattern)) > 0
FW_L137_Glob ==
    /\ fw.pc = "l137"
    /\ L117_Condition(Glob(fs) # {})
    /\ UNCHANGED fileVars

\* line 137: wait_event returned, its locals are gone
FW_L137_Done ==
    /\ fw.pc = "l137"
    /\ we.pc = "returned"
    /\ fw' = [fw EXCEPT !.pc = "l139"]
    /\ we' = NoWait
    /\ UNCHANGED <<fs, weEnv>>

\* line 137: wait_event raised, nothing catches it
FW_L137_Raise ==
    /\ fw.pc = "l137"
    /\ we.pc = "raised"
    /\ fw' = [fw EXCEPT !.pc = "raised", !.exc = we.exc]
    /\ we' = NoWait
    /\ UNCHANGED <<fs, weEnv>>

\* line 139: output_files = glob.glob(glob_pattern), in any order
FW_L139_Glob ==
    /\ fw.pc = "l139"
    /\ \E l \in Listings(Glob(fs)) :
         fw' = [fw EXCEPT !.output_files = l, !.listed = Glob(fs), !.pc = "l141"]
    /\ UNCHANGED <<fs, waitVars>>

\* line 141: if len(output_files) != 1
FW_L141_Check ==
    /\ fw.pc = "l141"
    /\ fw' = [fw EXCEPT !.pc = IF Len(fw.output_files) # 1 THEN "l153" ELSE "l158"]
    /\ UNCHANGED <<fs, waitVars>>

\* line 153 without the sort
FW_L153_Sort_AsListed ==
    /\ fw.pc = "l153"
    /\ fw' = [fw EXCEPT !.i = 1, !.pc = "l154"]
    /\ UNCHANGED <<fs, waitVars>>

\* line 153: output_files.sort()
FW_L153_Sort ==
    /\ fw.pc = "l153"
    /\ fw' = [fw EXCEPT !.output_files = SortSeq(@, LAMBDA a, b : a < b),
                        !.i = 1, !.pc = "l154"]
    /\ UNCHANGED <<fs, waitVars>>

\* lines 154-155 with an unlink that removes nothing
FW_L154_Unlink_Keep ==
    /\ fw.pc = "l154"
    /\ IF fw.i > Len(fw.output_files) - 1
       THEN fw' = [fw EXCEPT !.pc = "l156"]
       ELSE fw' = [fw EXCEPT !.i = @ + 1]
    /\ UNCHANGED <<fs, waitVars>>

\* lines 154-155: for f in output_files[:-1]: os.unlink(f), one iteration;
\* os.unlink of a file that is gone raises FileNotFoundError
FW_L154_Unlink ==
    /\ fw.pc = "l154"
    /\ IF fw.i > Len(fw.output_files) - 1
       THEN /\ fw' = [fw EXCEPT !.pc = "l156"]
            /\ fs' = fs
       ELSE LET f == fw.output_files[fw.i] IN
            IF f \in fs
            THEN /\ fs' = fs \ {f}
                 /\ fw' = [fw EXCEPT !.i = @ + 1, !.unlinked = @ \cup {f}]
            ELSE /\ fs' = fs
                 /\ fw' = [fw EXCEPT !.pc = "raised", !.exc = "FileNotFoundError"]
    /\ UNCHANGED waitVars

\* line 156: output_files = output_files[-1:]
FW_L156_Last ==
    /\ fw.pc = "l156"
    /\ fw' = [fw EXCEPT !.pc = "l158",
                        !.output_files = IF Len(@) = 0 THEN <<>> ELSE <<@[Len(@)]>>]
    /\ UNCHANGED <<fs, waitVars>>

\* line 158: return Path(output_files[0]); indexing an empty list raises
\* IndexError
FW_L158_Return ==
    /\ fw.pc = "l158"
    /\ IF Len(fw.output_files) = 0
       THEN fw' = [fw EXCEPT !.pc = "raised", !.exc = "IndexError"]
       ELSE fw' = [fw EXCEPT !.pc = "returned", !.result = Some(fw.output_files[1])]
    /\ UNCHANGED <<fs, waitVars>>

(* ================= claims about wait_for_file_by_prefix ================ *)
\* no other actor changed the directory during the call
Undisturbed == ~fw.created /\ ~fw.removed

\* the call is over
FileOver == fw.pc \in {"returned", "raised"}

\* C14: for every non-empty set of matching files that nobody else changes
\* during the call, the call returns the greatest matching file, has deleted
\* exactly the other matching files (so no file that does not match), and the
\* returned file is still there; with exactly one matching file nothing is
\* deleted.
C14_ReturnsLastDeletesRest ==
    (FileOver /\ Undisturbed /\ Glob(fw.initial) # {}) =>
        /\ fw.pc = "returned"
        /\ fw.result = Some(Last(Glob(fw.initial)))
        /\ fw.unlinked = Glob(fw.initial) \ {fw.result[1]}
        /\ fs = fw.initial \ fw.unlinked
        /\ fw.result[1] \in fs
        /\ Cardinality(Glob(fw.initial)) = 1 => fw.unlinked = {}

C14_Witness ==
    /\ fw.pc = "returned"
    /\ Undisturbed
    /\ fw.initial = Files
    /\ fw.result = Some(NFiles)
    /\ fs = {0, NFiles}

\* C15 as stated: the call fails only with StopEventSetException or
\* TimeoutError, whatever other actors create or remove during it.
C15_Original ==
    fw.pc = "raised" => fw.exc \in {"StopEventSetException", "TimeoutError"}

\* C17 as stated: with other actors only creating files during the call,
\* exactly one matching file remains when the call returns, the returned
\* one, and it is the last of the files produced.
C17_Original ==
    (fw.pc = "returned" /\ ~fw.removed) =>
        /\ Glob(fs) = {fw.result[1]}
        /\ fw.result[1] = Last(Glob(fw.initial \cup fs \cup fw.unlinked))

\* C17, amended: with other actors only creating files during the call, the
\* call fails only with the conditions of the wait, and when it returns, the
\* returned file is the last of the files listed at line 139, it is still
\* there, and the matching files that remain are the returned one and those
\* created after that listing.
C17_OneOfListedRemains ==
    (FileOver /\ ~fw.removed) =>
        /\ fw.exc \in {"none", "StopEventSetException", "TimeoutError"}
        /\ fw.pc = "returned" =>
             /\ fw.result = Some(Last(fw.listed))
             /\ fw.result[1] \in fs
             /\ Glob(fs) = {fw.result[1]} \cup Glob(fw.late)

C17_Witness ==
    /\ fw.pc = "returned"
    /\ ~fw.removed
    /\ fw.created
    /\ Cardinality(fw.listed) >= 2
    /\ fw.unlinked # {}
    /\ Glob(fw.late) # {}
    /\ fw.result[1] < Last(Glob(fs))

\* the state no further model uses
ExtIdle == LinkIdle /\ WaitIdle /\ PollIdle /\ FileIdle

(* ============================== run_in_ns ============================== *)
Procs == 1 .. NProcs
\* lines 378-383: the namespace kinds run_in_ns has a flag for
Kinds == {"mnt", "net", "pid", "uts"}
\* line 355: the kinds a caller may name; the kernel has more than the four
NsTypes == Kinds \cup {"ipc"}

\* namespace instances: that of the target (pid 1), another one a process may
\* start in, and the one unshare() makes for the worker of process p
InitNs == <<"init", 0>>
OtherNs == <<"other", 0>>
FreshNs(p) == <<"new", p>>
NetNss == {InitNs, OtherNs} \cup {FreshNs(p) : p \in Procs}

\* callbacks a caller passes: one returning a value, one returning None, one
\* raising; _take_lock for grab_gprofiler_mutex
UserCallbacks == {"value", "none", "raises"}

\* all lists of at most n kinds
RECURSIVE KindLists(_)
KindLists(n) ==
    IF n = 0 THEN {<<>>}
    ELSE LET shorter == KindLists(n - 1)
         IN  shorter \cup {Append(l, k) : l \in {x \in shorter : Len(x) = n - 1}, k \in NsTypes}

\* mutant: the list is used in the order given
SortMntLast_Unsorted(l) == l

\* line 370: sorted(nstypes, key=lambda ns: 1 if ns == "mnt" else 0), a stable sort
SortMntLast(l) ==
    SelectSeq(l, LAMBDA k : k # "mnt") \o SelectSeq(l, LAMBDA k : k = "mnt")

\* line 339: is_same_ns compares /proc/self/ns/<kind>, the namespace of the
\* process (its main thread), with that of the target
is_same_ns(p, k) == procNs[p][k] = InitNs

\* no run_in_ns call has been made
NsIdle ==
    /\ alive = [p \in Procs |-> TRUE]
    /\ requested = [p \in Procs |-> <<>>]
    /\ cb = [p \in Procs |-> "none"]
    /\ calls = [p \in Procs |-> 0]
    /\ cpc = [p \in Procs |-> "idle"]
    /\ nstypes = [p \in Procs |-> <<>>]
    /\ ret = [p \in Procs |-> <<>>]
    /\ res = [p \in Procs |-> <<>>]
    /\ wpc = [p \in Procs |-> "none"]
    /\ wi = [p \in Procs |-> 1]
    /\ wexc = [p \in Procs |-> "none"]
    /\ events = [p \in Procs |-> <<>>]
    /\ bound = [n \in NetNss |-> 0]
    /\ gprofiler_mutex = [p \in Procs |-> <<>>]
    /\ results = [p \in Procs |-> <<>>]

\* a caller calls run_in_ns(l, f): line 355
CallRunInNs(p, l, f) ==
    /\ requested' = [requested EXCEPT ![p] = l]
    /\ cb' = [cb EXCEPT ![p] = f]
    /\ calls' = [calls EXCEPT ![p] = @ + 1]
    /\ cpc' = [cpc EXCEPT ![p] = "l370"]

\* some code of the process calls run_in_ns with a user callback
NsCall(p) ==
    /\ alive[p]
    /\ cpc[p] = "idle"
    /\ calls[p] < MaxCalls
    /\ \E l \in KindLists(MaxKinds), f \in UserCallbacks : CallRunInNs(p, l, f)
    /\ UNCHANGED <<nsProc, nstypes, ret, res, nsWorker, mutexVars>>

\* lines 370-395: sort the kinds, ret = None, start the worker thread, which
\* begins in the namespaces of the thread that created it
L370_StartWorker(p) ==
    /\ cpc[p] = "l370"
    /\ nstypes' = [nstypes EXCEPT ![p] = SortMntLast(requested[p])]
    /\ ret' = [ret EXCEPT ![p] = <<>>]
    /\ wpc' = [wpc EXCEPT ![p] = "l376"]
    /\ wi' = [wi EXCEPT ![p] = 1]
    /\ workerNs' = [workerNs EXCEPT ![p] = procNs[p]]
    /\ wexc' = [wexc EXCEPT ![p] = "none"]
    /\ events' = [events EXCEPT ![p] = <<>>]
    /\ cpc' = [cpc EXCEPT ![p] = "l396"]
    /\ UNCHANGED <<nsProc, requested, cb, calls, res, mutexVars>>

\* the worker thread ends with exception e: _switch_and_run is left, ret is
\* not assigned
WorkerRaise(p, e) ==
    /\ wpc' = [wpc EXCEPT ![p] = "raised"]
    /\ wexc' = [wexc EXCEPT ![p] = e]

\* mutant: every kind is joined, whatever is_same_ns reports
L376_NextKind_AlwaysJoin(p) ==
    /\ wpc[p] = "l376"
    /\ IF wi[p] > Len(nstypes[p])
       THEN /\ wpc' = [wpc EXCEPT ![p] = "l392"]
            /\ UNCHANGED <<wi, wexc>>
       ELSE \E statOk \in BOOLEAN :
              IF ~statOk
              THEN WorkerRaise(p, "OSError") /\ wi' = wi
              ELSE IF nstypes[p][wi[p]] \notin Kinds
                   THEN WorkerRaise(p, "KeyError") /\ wi' = wi
                   ELSE /\ wpc' = [wpc EXCEPT ![p] = "l384"]
                        /\ UNCHANGED <<wi, wexc>>
    /\ UNCHANGED <<nsProc, nsCall, workerNs, events, mutexVars>>

\* lines 376-383: next kind of the list; os.stat of a namespace file may
\* fail, and the flag of a kind outside the table is a KeyError
L376_NextKind(p) ==
    /\ wpc[p] = "l376"
    /\ IF wi[p] > Len(nstypes[p])
       THEN /\ wpc' = [wpc EXCEPT ![p] = "l392"]
            /\ UNCHANGED <<wi, wexc>>
       ELSE \E statOk \in BOOLEAN :
              IF ~statOk
              THEN WorkerRaise(p, "OSError") /\ wi' = wi
              ELSE IF is_same_ns(p, nstypes[p][wi[p]])
                   THEN /\ wi' = [wi EXCEPT ![p] = @ + 1]
                        /\ UNCHANGED <<wpc, wexc>>
                   ELSE IF nstypes[p][wi[p]] \notin Kinds
                        THEN WorkerRaise(p, "KeyError") /\ wi' = wi
                        ELSE /\ wpc' = [wpc EXCEPT ![p] = "l384"]
                             /\ UNCHANGED <<wi, wexc>>
    /\ UNCHANGED <<nsProc, nsCall, workerNs, events, mutexVars>>

\* mutant: unshare moves the whole process, not only the calling thread
L384_Unshare_ProcessWide(p) ==
    /\ wpc[p] = "l384"
    /\ \E ok \in BOOLEAN :
         /\ events' = [events EXCEPT ![p] = Append(@, <<"unshare", nstypes[p][wi[p]], ok>>)]
         /\ IF ok
            THEN /\ workerNs' = [workerNs EXCEPT ![p][nstypes[p][wi[p]]] = FreshNs(p)]
                 /\ procNs' = [procNs EXCEPT ![p][nstypes[p][wi[p]]] = FreshNs(p)]
                 /\ wpc' = [wpc EXCEPT ![p] = "l387"]
                 /\ wexc' = wexc
            ELSE /\ WorkerRaise(p, "ValueError")
                 /\ UNCHANGED <<workerNs, procNs>>
    /\ UNCHANGED <<alive, nsCall, wi, mutexVars>>

\* lines 384-385: libc.unshare(flag); non-zero raises ValueError
L384_Unshare(p) ==
    /\ wpc[p] = "l384"
    /\ \E ok \in BOOLEAN :
         /\ events' = [events EXCEPT ![p] = Append(@, <<"unshare", nstypes[p][wi[p]], ok>>)]
         /\ IF ok
            THEN /\ workerNs' = [workerNs EXCEPT ![p][nstypes[p][wi[p]]] = FreshNs(p)]
                 /\ wpc' = [wpc EXCEPT ![p] = "l387"]
                 /\ wexc' = wexc
            ELSE /\ WorkerRaise(p, "ValueError")
                 /\ workerNs' = workerNs
    /\ UNCHANGED <<nsProc, nsCall, wi, mutexVars>>

\* mutant: the worker stays in the namespace unshare gave it
L387_Setns_NoJoin(p) ==
    /\ wpc[p] = "l387"
    /\ events' = [events EXCEPT ![p] = Append(@, <<"setns", nstypes[p][wi[p]], TRUE>>)]
    /\ wi' = [wi EXCEPT ![p] = @ + 1]
    /\ wpc' = [wpc EXCEPT ![p] = "l376"]
    /\ UNCHANGED <<nsProc, nsCall, workerNs, wexc, mutexVars>>

\* lines 387-389: open the target's namespace file (which may fail) and
\* libc.setns(fd, flag); non-zero raises ValueError
L387_Setns(p) ==
    /\ wpc[p] = "l387"
    /\ \E openOk \in BOOLEAN :
         IF ~openOk
         THEN /\ WorkerRaise(p, "OSError")
              /\ UNCHANGED <<events, workerNs, wi>>
         ELSE \E ok \in BOOLEAN :
                /\ events' = [events EXCEPT ![p] = Append(@, <<"setns", nstypes[p][wi[p]], ok>>)]
                /\ IF ok
                   THEN /\ workerNs' = [workerNs EXCEPT ![p][nstypes[p][wi[p]]] = InitNs]
                        /\ wi' = [wi EXCEPT ![p] = @ + 1]
                        /\ wpc' = [wpc EXCEPT ![p] = "l376"]
                        /\ wexc' = wexc
                   ELSE /\ WorkerRaise(p, "ValueError")
                        /\ UNCHANGED <<workerNs, wi>>
    /\ UNCHANGED <<nsProc, nsCall, mutexVars>>

\* what a user callback returns: a value, or None
CallbackResult(f) == IF f = "value" THEN <<"value">> ELSE <<>>

\* lines 391-392: ret = callback(), for a user callback
L392_Callback(p) ==
    /\ wpc[p] = "l392"
    /\ cb[p] \in UserCallbacks
    /\ events' = [events EXCEPT ![p] = Append(@, <<"callback", "", TRUE>>)]
    /\ IF cb[p] = "raises"
       THEN /\ WorkerRaise(p, "CallbackError")
            /\ ret' = ret
       ELSE /\ ret' = [ret EXCEPT ![p] = CallbackResult(cb[p])]
            /\ wpc' = [wpc EXCEPT ![p] = "exited"]
            /\ wexc' = wexc
    /\ UNCHANGED <<nsProc, requested, cb, calls, cpc, nstypes, res, wi, workerNs,
                   mutexVars>>

\* lines 396-398: t.join() returns once the worker has ended, however it
\* ended; return ret
L396_Join(p) ==
    /\ cpc[p] = "l396"
    /\ wpc[p] \in {"exited", "raised"}
    /\ res' = [res EXCEPT ![p] = ret[p]]
    /\ cpc' = [cpc EXCEPT ![p] = "l398"]
    /\ UNCHANGED <<nsProc, requested, cb, calls, nstypes, ret, nsWorker, mutexVars>>

\* whether a namespace operation of the call failed
NsOpFailed(p) == wexc[p] \in {"OSError", "ValueError"}

\* run_in_ns has returned: its locals and the ended worker thread are gone
ReturnToCaller(p) ==
    /\ requested' = [requested EXCEPT ![p] = <<>>]
    /\ cb' = [cb EXCEPT ![p] = "none"]
    /\ nstypes' = [nstypes EXCEPT ![p] = <<>>]
    /\ ret' = [ret EXCEPT ![p] = <<>>]
    /\ res' = [res EXCEPT ![p] = <<>>]
    /\ wpc' = [wpc EXCEPT ![p] = "none"]
    /\ wi' = [wi EXCEPT ![p] = 1]
    /\ workerNs' = [workerNs EXCEPT ![p] = procNs[p]]
    /\ wexc' = [wexc EXCEPT ![p] = "none"]
    /\ events' = [events EXCEPT ![p] = <<>>]
    /\ cpc' = [cpc EXCEPT ![p] = "idle"]

\* the caller of run_in_ns goes on with the returned value
NsReturn(p) ==
    /\ cpc[p] = "l398"
    /\ cb[p] \in UserCallbacks
    /\ ReturnToCaller(p)
    /\ UNCHANGED <<nsProc, calls, mutexVars>>

\* the processes SpecNs follows
NsProcs == {1}

NsInit ==
    /\ RunIdle
    /\ NsIdle
    /\ ExtIdle
    /\ procNs \in [Procs -> [NsTypes -> {InitNs, OtherNs}]]
    /\ \A p \in Procs \ NsProcs : procNs[p] = [k \in NsTypes |-> InitNs]
    /\ workerNs = procNs

(* ========================= grab_gprofiler_mutex ======================== *)
\* lines 401, 428: res = run_in_ns(["net"], _take_lock)
GrabCall(p) ==
    /\ alive[p]
    /\ cpc[p] = "idle"
    /\ calls[p] < MaxCalls
    /\ CallRunInNs(p, <<"net">>, "take_lock")
    /\ UNCHANGED <<nsProc, nstypes, ret, res, nsWorker, mutexVars>>

\* mutant: the bind takes the name over from its owner
L411_TakeLock_Rebind(p) ==
    /\ wpc[p] = "l392"
    /\ cb[p] = "take_lock"
    /\ events' = [events EXCEPT ![p] = Append(@, <<"callback", "", TRUE>>)]
    /\ bound' = [bound EXCEPT ![workerNs[p]["net"]] = p]
    /\ ret' = [ret EXCEPT ![p] = <<"ok", calls[p]>>]
    /\ wpc' = [wpc EXCEPT ![p] = "exited"]
    /\ UNCHANGED <<nsProc, requested, cb, calls, cpc, nstypes, res, wi, workerNs,
                   wexc, gprofiler_mutex, results>>

\* lines 391-392 with lines 411-426: ret = _take_lock(), run by the worker in
\* its network namespace: bind the abstract name; EADDRINUSE gives
\* (False, None), any other OSError is raised, success gives (True, s)
L411_TakeLock(p) ==
    /\ wpc[p] = "l392"
    /\ cb[p] = "take_lock"
    /\ events' = [events EXCEPT ![p] = Append(@, <<"callback", "", TRUE>>)]
    /\ \E bindOk \in BOOLEAN :
         IF ~bindOk
         THEN /\ WorkerRaise(p, "BindError")
              /\ UNCHANGED <<ret, bound>>
         ELSE IF bound[workerNs[p]["net"]] # 0
              THEN /\ ret' = [ret EXCEPT ![p] = <<"busy">>]
                   /\ wpc' = [wpc EXCEPT ![p] = "exited"]
                   /\ UNCHANGED <<wexc, bound>>
              ELSE /\ bound' = [bound EXCEPT ![workerNs[p]["net"]] = p]
                   /\ ret' = [ret EXCEPT ![p] = <<"ok", calls[p]>>]
                   /\ wpc' = [wpc EXCEPT ![p] = "exited"]
                   /\ wexc' = wexc
    /\ UNCHANGED <<nsProc, requested, cb, calls, cpc, nstypes, res, wi, workerNs,
                   gprofiler_mutex, results>>

\* what grab_gprofiler_mutex hands to its caller: the returned value and the
\* message it prints to stderr
SetupFailed == <<FALSE, "error">>
AlreadyLocked == <<FALSE, "locked">>
Acquired == <<TRUE, "">>

\* mutant: a failed setup is reported like contention
L429_GrabFinish_ErrorAsLocked(p) ==
    /\ cpc[p] = "l398"
    /\ cb[p] = "take_lock"
    /\ IF res[p] # <<>> /\ res[p][1] = "ok"
       THEN /\ gprofiler_mutex' = [gprofiler_mutex EXCEPT ![p] = <<"sock", res[p][2]>>]
            /\ results' = [results EXCEPT ![p] = Append(@, Acquired)]
       ELSE /\ gprofiler_mutex' = gprofiler_mutex
            /\ results' = [results EXCEPT ![p] = Append(@, AlreadyLocked)]
    /\ ReturnToCaller(p)
    /\ UNCHANGED <<nsProc, calls, bound>>

\* mutant: the socket is not kept; it is closed when the call returns
L429_GrabFinish_NoReference(p) ==
    /\ cpc[p] = "l398"
    /\ cb[p] = "take_lock"
    /\ IF res[p] = <<>>
       THEN /\ results' = [results EXCEPT ![p] = Append(@, SetupFailed)]
            /\ bound' = bound
       ELSE IF res[p][1] = "ok"
            THEN /\ results' = [results EXCEPT ![p] = Append(@, Acquired)]
                 /\ bound' = [n \in NetNss |-> IF bound[n] = p THEN 0 ELSE bound[n]]
            ELSE /\ results' = [results EXCEPT ![p] = Append(@, AlreadyLocked)]
                 /\ bound' = bound
    /\ ReturnToCaller(p)
    /\ UNCHANGED <<nsProc, calls, gprofiler_mutex>>

\* lines 429-449: None is taken for an exception in run_in_ns; (True, s)
\* stores s in the global and returns True; (False, None) returns False;
\* each branch but the second prints its own message to stderr
L429_GrabFinish(p) ==
    /\ cpc[p] = "l398"
    /\ cb[p] = "take_lock"
    /\ IF res[p] = <<>>
       THEN /\ results' = [results EXCEPT ![p] = Append(@, SetupFailed)]
            /\ gprofiler_mutex' = gprofiler_mutex
       ELSE IF res[p][1] = "ok"
            THEN /\ gprofiler_mutex' = [gprofiler_mutex EXCEPT ![p] = <<"sock", res[p][2]>>]
                 /\ results' = [results EXCEPT ![p] = Append(@, Acquired)]
            ELSE /\ gprofiler_mutex' = gprofiler_mutex
                 /\ results' = [results EXCEPT ![p] = Append(@, AlreadyLocked)]
    /\ ReturnToCaller(p)
    /\ UNCHANGED <<nsProc, calls, bound>>

\* lines 404-405: the process goes down with all its threads; the kernel
\* closes its sockets, which frees an abstract name bound to one of them
Terminate(p) ==
    /\ alive[p]
    /\ alive' = [alive EXCEPT ![p] = FALSE]
    /\ cpc' = [cpc EXCEPT ![p] = "dead"]
    /\ wpc' = [wpc EXCEPT ![p] = "dead"]
    /\ bound' = [n \in NetNss |-> IF bound[n] = p THEN 0 ELSE bound[n]]
    \* its memory is gone: the global and the locals of both threads
    /\ gprofiler_mutex' = [gprofiler_mutex EXCEPT ![p] = <<>>]
    /\ requested' = [requested EXCEPT ![p] = <<>>]
    /\ cb' = [cb EXCEPT ![p] = "none"]
    /\ nstypes' = [nstypes EXCEPT ![p] = <<>>]
    /\ ret' = [ret EXCEPT ![p] = <<>>]
    /\ res' = [res EXCEPT ![p] = <<>>]
    /\ wi' = [wi EXCEPT ![p] = 1]
    /\ workerNs' = [workerNs EXCEPT ![p] = procNs[p]]
    /\ wexc' = [wexc EXCEPT ![p] = "none"]
    /\ events' = [events EXCEPT ![p] = <<>>]
    /\ UNCHANGED <<procNs, calls, results>>

\* a process in network namespace n, in the namespaces of pid 1 otherwise
InNet(n) == [k \in NsTypes |-> IF k = "net" THEN n ELSE InitNs]

\* the first process starts in the network namespace of pid 1 or in another
\* one; of the others, those with an even number start in that of pid 1
MutexInit ==
    /\ RunIdle
    /\ NsIdle
    /\ ExtIdle
    /\ procNs \in {f \in [Procs -> {InNet(InitNs), InNet(OtherNs)}] :
                      \A p \in Procs \ {1} :
                          f[p] = InNet(IF p % 2 = 0 THEN InitNs ELSE OtherNs)}
    /\ workerNs = procNs

\* lines 401, 428: the process calls grab_gprofiler_mutex again
GrabAgain(p) ==
    /\ alive[p]
    /\ cpc[p] = "idle"
    /\ calls[p] < MaxGrabs
    /\ CallRunInNs(p, <<"net">>, "take_lock")
    /\ UNCHANGED <<nsProc, nstypes, ret, res, nsWorker, mutexVars>>

(* ================= claims about grab_gprofiler_mutex =================== *)
\* the finished grab_gprofiler_mutex calls, as <<process, number of the call>>
GrabCalls == {c \in Procs \X (1 .. MaxCalls) : c[2] <= Len(results[c[1]])}
OkCalls == {c \in GrabCalls : results[c[1]][c[2]][1]}
LockedCalls == {c \in GrabCalls : results[c[1]][c[2]][2] = "locked"}
ErrorCalls == {c \in GrabCalls : results[c[1]][c[2]][2] = "error"}
\* the living processes whose global holds a socket
Holders == {p \in Procs : alive[p] /\ gprofiler_mutex[p] # <<>>}
NoneDied == \A p \in Procs : alive[p]
AllReturned == \A p \in Procs : cpc[p] = "idle"

\* C6: in every interleaving of processes calling grab_gprofiler_mutex, from
\* whatever network namespace, at most one process holds the lock at any time
\* and the name is only ever bound in the network namespace of pid 1; while no
\* process has terminated at most one call has returned True, a call returns
\* "already locked" only when the name is bound, and once all calls have
\* returned, exactly one of those whose namespace switch and bind did not
\* fail returned True, the others "already locked".
C6_AtMostOneHolder ==
    /\ Cardinality(Holders) <= 1
    /\ \A n \in NetNss \ {InitNs} : bound[n] = 0
    /\ \A p \in Holders : bound[InitNs] = p
    /\ NoneDied =>
         /\ Cardinality(OkCalls) <= 1
         /\ LockedCalls # {} => bound[InitNs] # 0
         /\ \A c \in OkCalls : bound[InitNs] = c[1]
    /\ (NoneDied /\ AllReturned /\ OkCalls \cup LockedCalls # {}) =>
         Cardinality(OkCalls) = 1

\* C6 witness: callers from two network namespaces; the one that started
\* outside the namespace of pid 1 got the lock, the other "already locked"
C6_Witness ==
    /\ NoneDied
    /\ AllReturned
    /\ \E p, q \in Procs :
         /\ procNs[p]["net"] = OtherNs
         /\ procNs[q]["net"] = InitNs
         /\ results[p] = <<Acquired>>
         /\ results[q] = <<AlreadyLocked>>
         /\ bound[InitNs] = p

\* C7 as stated: what the caller receives for a setup failure differs from
\* what it receives for lock contention.
C7_Original ==
    \A e \in ErrorCalls : results[e[1]][e[2]][1] # AlreadyLocked[1]

\* C7 amended: when the namespace switch fails or the bind fails with an error
\* other than EADDRINUSE, grab_gprofiler_mutex returns False, the same value it
\* returns for lock contention; the two differ only in the message printed to
\* stderr (the "due to an error" message exactly when the worker ended with an
\* exception, the "already running" message exactly when the bind met
\* EADDRINUSE), and no lock handle is stored in either case.
C7_FailureReportedOnStderrOnly ==
    /\ [][\A p \in Procs :
            (cpc[p] = "l398" /\ cpc'[p] = "idle") =>
                LET r == results'[p][Len(results'[p])]
                IN  /\ Len(results'[p]) = Len(results[p]) + 1
                    /\ (wexc[p] # "none") <=> (r = SetupFailed)
                    /\ (wexc[p] = "none" /\ ret[p] = <<"busy">>) <=> (r = AlreadyLocked)
                    /\ ~r[1] => gprofiler_mutex'[p] = gprofiler_mutex[p]]_vars
    /\ [](\A c \in ErrorCalls \cup LockedCalls : ~results[c[1]][c[2]][1])
    /\ [](\A p \in Procs : OkCalls \cap ({p} \X (1 .. MaxCalls)) = {}
                               => gprofiler_mutex[p] = <<>>)

\* C7 witness: a call from another namespace failed in its setup, returned
\* False with the error message and stored no handle
C7_Witness ==
    \E p \in Procs :
        /\ procNs[p]["net"] = OtherNs
        /\ results[p] = <<SetupFailed>>
        /\ gprofiler_mutex[p] = <<>>
        /\ alive[p]
        /\ bound[InitNs] # p

\* C8: a process that acquired the mutex holds it for as long as it lives: its
\* handle is never cleared or replaced and the name stays bound to it; a bound
\* name always belongs to a living process, so after the holder terminates
\* the name is free, and a bind on a free name succeeds with no cleanup step.
C8_HeldUntilTermination ==
    /\ [](\A p \in Procs :
            (alive[p] /\ OkCalls \cap ({p} \X (1 .. MaxCalls)) # {})
                => (gprofiler_mutex[p] # <<>> /\ bound[InitNs] = p))
    /\ [][\A p \in Procs :
            (gprofiler_mutex[p] # <<>> /\ alive'[p])
                => (gprofiler_mutex'[p] = gprofiler_mutex[p] /\ bound'[InitNs] = p)]_vars
    /\ [](\A n \in NetNss : bound[n] # 0 => alive[bound[n]])
    /\ [][\A q \in Procs :
            (wpc[q] = "l392" /\ wpc'[q] = "exited")
                => ((bound[workerNs[q]["net"]] = 0) <=> (ret'[q][1] = "ok"))]_vars

\* C8 witness: the first holder has terminated and another process holds the
\* lock now
C8_Witness ==
    \E p, q \in Procs :
        /\ ~alive[p]
        /\ results[p] = <<Acquired>>
        /\ alive[q]
        /\ gprofiler_mutex[q] # <<>>
        /\ bound[InitNs] = q
        /\ results[q][Len(results[q])] = Acquired

\* the calls of process p that returned True
OkCallsOf(p) == {i \in 1 .. Len(results[p]) : results[p][i] = Acquired}

\* C19: over any sequence of grab_gprofiler_mutex calls of one process, the
\* global handle is set if and only if some earlier call returned True, at
\* most one call returns True, the handle is the socket bound by that call,
\* no later step changes it, and every later call returns False.
C19_HandleWrittenOnce ==
    /\ [](\A p \in Procs :
            /\ (gprofiler_mutex[p] # <<>>) <=> (OkCallsOf(p) # {})
            /\ Cardinality(OkCallsOf(p)) <= 1
            /\ \A i \in OkCallsOf(p) :
                 /\ gprofiler_mutex[p] = <<"sock", i>>
                 /\ bound[InitNs] = p
                 /\ \A j \in i + 1 .. Len(results[p]) : ~results[p][j][1])
    /\ [][\A p \in Procs :
            gprofiler_mutex[p] # <<>> => gprofiler_mutex'[p] = gprofiler_mutex[p]]_vars
    /\ [][\A p \in Procs :
            (cpc[p] = "l398" /\ cpc'[p] = "idle" /\ gprofiler_mutex[p] # <<>>
               /\ wexc[p] = "none")
                => results'[p] = Append(results[p], AlreadyLocked)]_vars

\* C19 witness: the first call failed in its setup, the second acquired the
\* lock, the third met the process's own socket
C19_Witness ==
    /\ results[1] = <<SetupFailed, Acquired, AlreadyLocked>>
    /\ gprofiler_mutex[1] = <<"sock", 2>>
    /\ procNs[1]["net"] = OtherNs

(* ======================= claims about run_in_ns ======================== *)
\* the worker's call number i was op
IsOp(p, i, op) == events[p][i][1] = op
\* the kinds the worker has joined (setns returned 0), in order
RECURSIVE Joined(_)
Joined(ev) ==
    IF ev = <<>> THEN <<>>
    ELSE IF ev[1][1] = "setns" /\ ev[1][3] THEN <<ev[1][2]>> \o Joined(Tail(ev))
         ELSE Joined(Tail(ev))
\* the kinds of a list in which the process is not in the target's namespace
RECURSIVE ToJoin(_, _)
ToJoin(p, l) ==
    IF l = <<>> THEN <<>>
    ELSE IF is_same_ns(p, l[1]) THEN ToJoin(p, Tail(l))
         ELSE <<l[1]>> \o ToJoin(p, Tail(l))
Range(l) == {l[i] : i \in 1 .. Len(l)}
WithoutMnt(l) == SelectSeq(l, LAMBDA k : k # "mnt")
CallbackRan(p) == \E i \in 1 .. Len(events[p]) : IsOp(p, i, "callback")
\* what run_in_ns returns once the user callback f has run
ReturnedFor(f) == IF f = "raises" THEN <<>> ELSE CallbackResult(f)

\* C9, first part: after a failed namespace operation the callback is never
\* invoked and no further unshare or setns is attempted.
C9_NoCallbackNoRetry ==
    \A p \in Procs :
        NsOpFailed(p) =>
            /\ ~CallbackRan(p)
            /\ wpc[p] = "raised"
            /\ \A i \in 1 .. Len(events[p]) - 1 : events[p][i][3]

\* C9, what a caller gets from a call whose callback ran
C9_UserLevelOutcome ==
    \A p \in Procs :
        (cpc[p] = "l398" /\ CallbackRan(p)) => res[p] = ReturnedFor(cb[p])

\* C9 as stated: when a namespace operation fails the callback is never
\* invoked, no further join is attempted, and what the caller of run_in_ns
\* receives differs from what it receives for any user-level outcome of the
\* callback (a value, None, or an exception of the callback).
C9_Original ==
    \A p \in Procs :
        (cpc[p] = "l398" /\ NsOpFailed(p)) =>
            /\ ~CallbackRan(p)
            /\ \A i \in 1 .. Len(events[p]) - 1 : events[p][i][3]
            /\ \A f \in UserCallbacks : res[p] # ReturnedFor(f)

\* C10: the worker joins the requested kinds one after the other in the order
\* of the list with every "mnt" moved behind all other kinds (the others in
\* the order given); each setns directly follows the successful unshare of
\* the same kind; the callback is invoked at most once, after every
\* requested kind that needs a join has been joined successfully (the worker
\* is then in the target's namespace of every requested kind), and exactly
\* once in a call in which no namespace operation fails and every requested
\* kind is one of the four the flag table knows.
C10_JoinOrder ==
    \A p \in Procs :
        LET ev == events[p]
            ns == nstypes[p]
        IN  /\ cpc[p] \in {"l396", "l398"} =>
                 /\ Len(ns) = Len(requested[p])
                 /\ WithoutMnt(ns) = WithoutMnt(requested[p])
                 /\ \A i, j \in 1 .. Len(ns) : (i < j /\ ns[i] = "mnt") => ns[j] = "mnt"
            /\ \A i, j \in 1 .. Len(ev) :
                 (i < j /\ ev[i][2] = "mnt") => ev[j][2] \in {"mnt", ""}
            /\ wpc[p] \in {"l376", "l392", "exited"} =>
                 Joined(ev) = ToJoin(p, SubSeq(ns, 1, wi[p] - 1))
            /\ \A i \in 1 .. Len(ev) :
                 /\ IsOp(p, i, "setns") =>
                      (i > 1 /\ ev[i - 1] = <<"unshare", ev[i][2], TRUE>>)
                 /\ (IsOp(p, i, "unshare") /\ ev[i][3] /\ i < Len(ev)) =>
                      (IsOp(p, i + 1, "setns") /\ ev[i + 1][2] = ev[i][2])
                 /\ IsOp(p, i, "callback") =>
                      /\ i = Len(ev)
                      /\ \A j \in 1 .. i - 1 : ev[j][3] /\ ~IsOp(p, j, "callback")
                      /\ Joined(ev) = ToJoin(p, ns)
            /\ (cpc[p] = "l398" /\ wexc[p] \in {"none", "CallbackError"}) => CallbackRan(p)
            /\ (cpc[p] = "l398" /\ wexc[p] = "none") =>
                 (res[p] = CallbackResult(cb[p]) /\ \A k \in NsTypes : workerNs[p][k] = InitNs
                                                                    \/ k \notin Range(ns))

\* C10 witness: mnt was requested first and is joined last, pid and net in the
\* order given, then the callback ran
C10_Witness ==
    /\ cpc[1] = "l398"
    /\ requested[1] = <<"mnt", "pid", "net">>
    /\ events[1] = << <<"unshare", "pid", TRUE>>, <<"setns", "pid", TRUE>>,
                      <<"unshare", "net", TRUE>>, <<"setns", "net", TRUE>>,
                      <<"unshare", "mnt", TRUE>>, <<"setns", "mnt", TRUE>>,
                      <<"callback", "", TRUE>> >>
    /\ res[1] = <<"value">>

\* the kinds the worker has called unshare for, in order
RECURSIVE Unshared(_)
Unshared(ev) ==
    IF ev = <<>> THEN <<>>
    ELSE IF ev[1][1] = "unshare" THEN <<ev[1][2]>> \o Unshared(Tail(ev))
         ELSE Unshared(Tail(ev))
\* the process is in the target's namespace of every requested kind
AllSame(p) == \A k \in Range(requested[p]) : is_same_ns(p, k)

\* C11: unshare and setns are called only for requested kinds for which
\* is_same_ns reports a different namespace, and for every such kind the
\* worker gets to; a call in which the process is in the target's namespace
\* of every requested kind performs no unshare and no setns, runs the
\* callback exactly once (unless os.stat of is_same_ns itself failed) and
\* returns what the callback returned.
C11_JoinOnlyWhenDifferent ==
    \A p \in Procs :
        LET ev == events[p]
        IN  /\ \A i \in 1 .. Len(ev) :
                 ev[i][1] \in {"unshare", "setns"} =>
                     (~is_same_ns(p, ev[i][2]) /\ ev[i][2] \in Range(requested[p]))
            /\ wpc[p] \in {"l376", "l392", "exited"} =>
                 Unshared(ev) = ToJoin(p, SubSeq(nstypes[p], 1, wi[p] - 1))
            /\ (cpc[p] # "idle" /\ AllSame(p)) =>
                 /\ \A i \in 1 .. Len(ev) : IsOp(p, i, "callback")
                 /\ Len(ev) <= 1
                 /\ wexc[p] \in {"none", "OSError", "CallbackError"}
            /\ (cpc[p] = "l398" /\ AllSame(p) /\ wexc[p] # "OSError") =>
                 /\ ev = << <<"callback", "", TRUE>> >>
                 /\ cb[p] # "raises" => res[p] = CallbackResult(cb[p])

\* C11 witness: three kinds requested, the process shares all of them with
\* the target; the call returned the callback's value after the callback as
\* its only operation
C11_Witness ==
    /\ cpc[1] = "l398"
    /\ requested[1] = <<"mnt", "net", "pid">>
    /\ AllSame(1)
    /\ procNs[1]["uts"] = OtherNs
    /\ events[1] = << <<"callback", "", TRUE>> >>
    /\ cb[1] = "value"
    /\ res[1] = <<"value">>

\* C12: no step of a run_in_ns call, however the call ends, changes the
\* namespaces of the process's other threads; the calling thread leaves
\* line 396 only when the worker has ended, an ended worker never runs again,
\* and the worker of every call starts afresh in the namespaces of the process.
C12_OnlyWorkerMoves ==
    /\ [][procNs' = procNs]_vars
    /\ [](\A p \in Procs : cpc[p] = "l398" => wpc[p] \in {"exited", "raised"})
    /\ [][\A p \in Procs :
            /\ (cpc[p] = "l396" /\ cpc'[p] # "l396") => wpc[p] \in {"exited", "raised"}
            /\ wpc[p] \in {"exited", "raised"} =>
                 (wpc'[p] \in {wpc[p], "none"} /\ workerNs'[p] \in {workerNs[p], procNs[p]})
            /\ (cpc[p] = "l370" /\ cpc'[p] = "l396") =>
                 (workerNs'[p] = procNs[p] /\ events'[p] = <<>> /\ wi'[p] = 1
                  /\ wpc[p] = "none")]_vars

\* C12 witness: the call failed part-way, the worker had joined the target's
\* pid namespace before, the process is still where it was
C12_Witness ==
    /\ cpc[1] = "l398"
    /\ events[1] = << <<"unshare", "pid", TRUE>>, <<"setns", "pid", TRUE>>,
                      <<"unshare", "net", FALSE>> >>
    /\ workerNs[1]["pid"] = InitNs
    /\ procNs[1]["pid"] = OtherNs
    /\ wexc[1] = "ValueError"

(* ========================= claims about termination ==================== *)
\* the run_process call was given a stop event and the child dies when sent
\* kill_signal
Supervised == stop_event /\ Kills(kill_signal, childIgnores)

\* C21 as stated: the proviso on kill_signal belongs to the calls with a
\* timeout only; a call given a stop event and no timeout returns or raises
\* once the child has ended or the stop event is set, and polls again and
\* again until it leaves.
C21_Original ==
    /\ (Supervised /\ timeout # Nil) ~> (pc = "done")
    /\ (stop_event /\ timeout = Nil /\ (child # "running" \/ stopSet)) ~> (pc = "done")
    /\ []((pc = "done" /\ stop_event /\ timeout = Nil) =>
            (diedOf = "self" \/ stopSet \/ exc \in {"AssertionError", "Exception"}))
    /\ (stop_event /\ timeout = Nil /\ communicate) =>
            ([]<>(pc = "l194") \/ <>(pc = "done"))
    /\ (we.pc = "l115") ~> (we.pc \in {"returned", "raised"})

\* C21, amended: with a clock that advances and threads that keep running,
\* (1) a run_process call given a stop event and a timeout returns or raises,
\*     whatever the child does, provided the child dies when sent kill_signal;
\* (2) under the same proviso a call given a stop event and no timeout returns
\*     or raises once the child has ended or the stop event is set;
\* (3) such a call leaves for no other reason than the end of the child, the
\*     stop event, a failed assertion or an exception of the wait itself,
\* (4) and until it leaves it polls again and again;
\* (5) a wait_event call returns or raises, given that its predicate returns.
C21_Termination ==
    /\ (Supervised /\ timeout # Nil) ~> (pc = "done")
    /\ (Supervised /\ timeout = Nil /\ (child # "running" \/ stopSet)) ~> (pc = "done")
    /\ []((pc = "done" /\ stop_event /\ timeout = Nil) =>
            (diedOf = "self" \/ stopSet \/ exc \in {"AssertionError", "Exception"}))
    /\ (Supervised /\ timeout = Nil /\ communicate) =>
            ([]<>(pc = "l194") \/ <>(pc = "done"))
    /\ (we.pc = "l115") ~> (we.pc \in {"returned", "raised"})

\* a call with no timeout whose stop event was set while the child ran: the
\* child died of a kill_signal it does not ignore and the call has raised
C21_Witness ==
    /\ pc = "done"
    /\ stop_event
    /\ timeout = Nil
    /\ stopWhileRunning
    /\ kill_signal # SIGKILL
    /\ ~childIgnores
    /\ diedOf = "kill_signal"
    /\ outcome.type = "ProcessStoppedException"

(* ============================ specifications =========================== *)
RunNext ==
    \/ Tick /\ UNCHANGED <<nsVars, extVars>>
    \/ SetStop /\ UNCHANGED <<nsVars, extVars>>
    \/ ChildExit /\ UNCHANGED <<nsVars, extVars>>
    \/ L177_Enter /\ UNCHANGED <<nsVars, extVars>>
    \/ CommunicateDone /\ UNCHANGED <<nsVars, extVars>>
    \/ L185_Wait /\ UNCHANGED <<nsVars, extVars>>
    \/ L193_SliceTimeout /\ UNCHANGED <<nsVars, extVars>>
    \/ L194_CheckStop /\ UNCHANGED <<nsVars, extVars>>
    \/ L196_CheckDeadline /\ UNCHANGED <<nsVars, extVars>>
    \/ WaitInterrupted /\ UNCHANGED <<nsVars, extVars>>
    \/ L200_SendSignal /\ UNCHANGED <<nsVars, extVars>>
    \/ L201_Wait /\ UNCHANGED <<nsVars, extVars>>
    \/ L202_Reraise /\ UNCHANGED <<nsVars, extVars>>
    \/ L203_Poll /\ UNCHANGED <<nsVars, extVars>>
    \/ L205_Finish /\ UNCHANGED <<nsVars, extVars>>
\* one run_process call; no run_in_ns call is made
RunSpecInit ==
    /\ NsIdle
    /\ ExtIdle
    /\ procNs = [p \in Procs |-> [k \in NsTypes |-> InitNs]]
    /\ workerNs = procNs
    /\ RunInit

SpecRun == RunSpecInit /\ [][RunNext]_vars

NsNext ==
    \E p \in NsProcs :
        \/ NsCall(p) /\ UNCHANGED <<runVars, extVars>>
        \/ L370_StartWorker(p) /\ UNCHANGED <<runVars, extVars>>
        \/ L376_NextKind(p) /\ UNCHANGED <<runVars, extVars>>
        \/ L384_Unshare(p) /\ UNCHANGED <<runVars, extVars>>
        \/ L387_Setns(p) /\ UNCHANGED <<runVars, extVars>>
        \/ L392_Callback(p) /\ UNCHANGED <<runVars, extVars>>
        \/ L396_Join(p) /\ UNCHANGED <<runVars, extVars>>
        \/ NsReturn(p) /\ UNCHANGED <<runVars, extVars>>

SpecNs == NsInit /\ [][NsNext]_vars

MutexNext ==
    \E p \in Procs :
        \/ GrabCall(p) /\ UNCHANGED <<runVars, extVars>>
        \/ L370_StartWorker(p) /\ UNCHANGED <<runVars, extVars>>
        \/ L376_NextKind(p) /\ UNCHANGED <<runVars, extVars>>
        \/ L384_Unshare(p) /\ UNCHANGED <<runVars, extVars>>
        \/ L387_Setns(p) /\ UNCHANGED <<runVars, extVars>>
        \/ L411_TakeLock(p) /\ UNCHANGED <<runVars, extVars>>
        \/ L396_Join(p) /\ UNCHANGED <<runVars, extVars>>
        \/ L429_GrabFinish(p) /\ UNCHANGED <<runVars, extVars>>
        \/ Terminate(p) /\ UNCHANGED <<runVars, extVars>>

SpecMutex == MutexInit /\ [][MutexNext]_vars

GrabSeqNext ==
    \E p \in NsProcs :
        \/ GrabAgain(p) /\ UNCHANGED <<runVars, extVars>>
        \/ L370_StartWorker(p) /\ UNCHANGED <<runVars, extVars>>
        \/ L376_NextKind(p) /\ UNCHANGED <<runVars, extVars>>
        \/ L384_Unshare(p) /\ UNCHANGED <<runVars, extVars>>
        \/ L387_Setns(p) /\ UNCHANGED <<runVars, extVars>>
        \/ L411_TakeLock(p) /\ UNCHANGED <<runVars, extVars>>
        \/ L396_Join(p) /\ UNCHANGED <<runVars, extVars>>
        \/ L429_GrabFinish(p) /\ UNCHANGED <<runVars, extVars>>

\* one process calling grab_gprofiler_mutex repeatedly
SpecGrabSeq == MutexInit /\ [][GrabSeqNext]_vars

LinkNext ==
    \/ L292_Begin /\ UNCHANGED linkFrame
    \/ L296_Component /\ UNCHANGED linkFrame
    \/ L306_Return /\ UNCHANGED linkFrame

LinkSpecInit ==
    /\ RunIdle
    /\ NsIdle
    /\ procNs = [p \in Procs |-> [k \in NsTypes |-> InitNs]]
    /\ workerNs = procNs
    /\ WaitIdle
    /\ PollIdle
    /\ FileIdle
    /\ LinkInit

SpecLinks == LinkSpecInit /\ [][LinkNext]_vars

WaitNext ==
    \/ WTick /\ UNCHANGED waitFrame
    \/ WSetStop /\ UNCHANGED waitFrame
    \/ CondFlip /\ UNCHANGED waitFrame
    \/ L115_Start /\ UNCHANGED waitFrame
    \/ L117_Predicate /\ UNCHANGED waitFrame
    \/ L120_StopWait /\ UNCHANGED waitFrame
    \/ L123_Deadline /\ UNCHANGED waitFrame

WaitSpecInit ==
    /\ RunIdle
    /\ NsIdle
    /\ procNs = [p \in Procs |-> [k \in NsTypes |-> InitNs]]
    /\ workerNs = procNs
    /\ LinkIdle
    /\ PollIdle
    /\ FileIdle
    /\ WaitCalled
    /\ weEnv \in [stopSet : BOOLEAN, now : {0}, cond : BOOLEAN]

SpecWait == WaitSpecInit /\ [][WaitNext]_vars

PollNext ==
    \/ (WTick /\ pp' = pp) /\ UNCHANGED pollFrame
    \/ (WSetStop /\ pp' = pp) /\ UNCHANGED pollFrame
    \/ ProcExit /\ UNCHANGED pollFrame
    \/ (L115_Start /\ pp' = pp) /\ UNCHANGED pollFrame
    \/ PP_L129_Poll /\ UNCHANGED pollFrame
    \/ (L120_StopWait /\ pp' = pp) /\ UNCHANGED pollFrame
    \/ (L123_Deadline /\ pp' = pp) /\ UNCHANGED pollFrame
    \/ PP_L129_Done /\ UNCHANGED pollFrame
    \/ PP_L130_Except /\ UNCHANGED pollFrame
    \/ PP_L131_Kill /\ UNCHANGED pollFrame
    \/ PP_L132_Raise /\ UNCHANGED pollFrame

PollSpecInit ==
    /\ RunIdle
    /\ NsIdle
    /\ procNs = [p \in Procs |-> [k \in NsTypes |-> InitNs]]
    /\ workerNs = procNs
    /\ LinkIdle
    /\ FileIdle
    /\ PollCalled
    /\ WaitCalled
    /\ weEnv \in [stopSet : BOOLEAN, now : {0}, cond : {FALSE}]

SpecPoll == PollSpecInit /\ [][PollNext]_vars

FileNext ==
    \/ (WTick /\ UNCHANGED fileVars) /\ UNCHANGED fileFrame
    \/ (WSetStop /\ UNCHANGED fileVars) /\ UNCHANGED fileFrame
    \/ (\E f \in Files : Create(f)) /\ UNCHANGED fileFrame
    \/ (\E f \in Files : Remove(f)) /\ UNCHANGED fileFrame
    \/ (L115_Start /\ UNCHANGED fileVars) /\ UNCHANGED fileFrame
    \/ FW_L137_Glob /\ UNCHANGED fileFrame
    \/ (L120_StopWait /\ UNCHANGED fileVars) /\ UNCHANGED fileFrame
    \/ (L123_Deadline /\ UNCHANGED fileVars) /\ UNCHANGED fileFrame
    \/ FW_L137_Done /\ UNCHANGED fileFrame
    \/ FW_L137_Raise /\ UNCHANGED fileFrame
    \/ FW_L139_Glob /\ UNCHANGED fileFrame
    \/ FW_L141_Check /\ UNCHANGED fileFrame
    \/ FW_L153_Sort /\ UNCHANGED fileFrame
    \/ FW_L154_Unlink /\ UNCHANGED fileFrame
    \/ FW_L156_Last /\ UNCHANGED fileFrame
    \/ FW_L158_Return /\ UNCHANGED fileFrame

FileSpecInit ==
    /\ RunIdle
    /\ NsIdle
    /\ procNs = [p \in Procs |-> [k \in NsTypes |-> InitNs]]
    /\ workerNs = procNs
    /\ LinkIdle
    /\ PollIdle
    /\ FileCalled
    /\ WaitCalled
    /\ weEnv \in [stopSet : BOOLEAN, now : {0}, cond : {FALSE}]

SpecFiles == FileSpecInit /\ [][FileNext]_vars

\* the steps of the thread that called run_process
RunSteps ==
    \/ L177_Enter /\ UNCHANGED <<nsVars, extVars>>
    \/ CommunicateDone /\ UNCHANGED <<nsVars, extVars>>
    \/ L193_SliceTimeout /\ UNCHANGED <<nsVars, extVars>>
    \/ L194_CheckStop /\ UNCHANGED <<nsVars, extVars>>
    \/ L196_CheckDeadline /\ UNCHANGED <<nsVars, extVars>>
    \/ L200_SendSignal /\ UNCHANGED <<nsVars, extVars>>
    \/ L201_Wait /\ UNCHANGED <<nsVars, extVars>>
    \/ L202_Reraise /\ UNCHANGED <<nsVars, extVars>>
    \/ L203_Poll /\ UNCHANGED <<nsVars, extVars>>
    \/ L205_Finish /\ UNCHANGED <<nsVars, extVars>>

\* the steps of the thread that called wait_event
WaitSteps ==
    \/ L115_Start /\ UNCHANGED waitFrame
    \/ L117_Predicate /\ UNCHANGED waitFrame
    \/ L120_StopWait /\ UNCHANGED waitFrame
    \/ L123_Deadline /\ UNCHANGED waitFrame

\* the clocks
RunClock == TickLive /\ UNCHANGED <<nsVars, extVars>>
WaitClock == WTickLive /\ UNCHANGED waitFrame

LiveNext ==
    \/ RunClock
    \/ SetStop /\ UNCHANGED <<nsVars, extVars>>
    \/ ChildExit /\ UNCHANGED <<nsVars, extVars>>
    \/ WaitInterrupted /\ UNCHANGED <<nsVars, extVars>>
    \/ RunSteps
    \/ WaitClock
    \/ WSetStop /\ UNCHANGED waitFrame
    \/ CondFlip /\ UNCHANGED waitFrame
    \/ WaitSteps

\* either one run_process call given a stop event (of one command, with
\* check set: neither has a part in how long the call takes), or one
\* wait_event call
LiveSpecInit ==
    /\ NsIdle
    /\ procNs = [p \in Procs |-> [k \in NsTypes |-> InitNs]]
    /\ workerNs = procNs
    /\ LinkIdle
    /\ PollIdle
    /\ FileIdle
    /\ \/ /\ RunInit
          /\ stop_event
          /\ cmd = <<"ls">>
          /\ check
          /\ WaitIdle
       \/ /\ RunIdle
          /\ WaitCalled
          /\ weEnv \in [stopSet : BOOLEAN, now : {0}, cond : BOOLEAN]

\* the calling thread keeps running and time passes; nothing is assumed of
\* the child, of the stop event or of the predicate
LiveFairness ==
    /\ WF_vars(RunSteps)
    /\ WF_vars(RunClock)
    /\ WF_vars(WaitSteps)
    /\ WF_vars(WaitClock)

SpecLive == LiveSpecInit /\ [][LiveNext]_vars /\ LiveFairness

====
